---- MODULE Spec2Model ----
(***************************************************************************)
(* Model of the nu-posix translation engine: the heuristic POSIX parser    *)
(* (src/plugin/parser_posix.rs), the conversion dispatcher                 *)
(* (src/plugin/converter.rs) and the builtin / external-utility converter  *)
(* registries (src/plugin/builtin, src/plugin/sus).                        *)
(*                                                                         *)
(* Text is modelled by TLA+ strings; Rust byte offsets are 0-based and the *)
(* model keeps them 0-based (Slice), so that an out-of-order slice is a    *)
(* panic in the model exactly where it is one in the program.              *)
(***************************************************************************)
EXTENDS Integers, Sequences, FiniteSets, TLC

VARIABLES
    pc,        \* position of the host's call sequence
    input,     \* POSIX text handed to parse_posix_script
    script,    \* the PosixScript: parse result, or handed to convert directly
    name,      \* command name of a registry / dispatcher call
    args,      \* argument vector of a registry / dispatcher call
    arg,       \* argument handed to a quoting helper
    helper,    \* the quoting helper in use
    result,    \* outcome of the last conversion
    stack,     \* pending calls of the recursive functions, innermost first
    registry,  \* the two converter tables built at startup
    calls,     \* the invocation each independent caller has in progress
    overflow_checks  \* whether the build traps on integer overflow

vars == <<pc, input, script, name, args, arg, helper, result, stack, registry, calls,
          overflow_checks>>

----------------------------------------------------------------------------
(* Bounds of the model                                                     *)

MaxWords == 5      \* words in a generated and/or line
MaxTail == 5       \* words after the keyword of a generated loop line
MaxGroup == 3      \* words in a generated conditional, case or bracket line
MaxArgs == 4       \* arguments in a generated argument vector
MaxLines == 2      \* lines in a generated multi-line script
MaxArgLen == 3     \* characters in a generated quoting-helper argument

----------------------------------------------------------------------------
(* Rust str primitives                                                     *)

Min(a, b) == IF a <= b THEN a ELSE b

CharAt(s, i) == SubSeq(s, i + 1, i + 1)

\* &s[a..b]; the caller checks SliceOk first, as the runtime does
Slice(s, a, b) == SubSeq(s, a + 1, b)

SliceOk(s, a, b) == a >= 0 /\ a <= b /\ b <= Len(s)

SliceFrom(s, a) == SubSeq(s, a + 1, Len(s))

StartsWith(s, p) == Len(p) <= Len(s) /\ SubSeq(s, 1, Len(p)) = p

EndsWith(s, p) == Len(p) <= Len(s) /\ SubSeq(s, Len(s) - Len(p) + 1, Len(s)) = p

MatchAt(s, p, i) == i + Len(p) <= Len(s) /\ SubSeq(s, i + 1, i + Len(p)) = p

Contains(s, p) == \E i \in 0..(Len(s) - Len(p)) : MatchAt(s, p, i)

\* str::find: byte offset of the first match, -1 for None
Find(s, p) ==
    IF Contains(s, p)
    THEN CHOOSE i \in 0..(Len(s) - Len(p)) :
            /\ MatchAt(s, p, i)
            /\ \A j \in 0..(i - 1) : ~MatchAt(s, p, j)
    ELSE -1

IsWhitespace(c) == c \in {" ", "\t", "\n", "\r"}

RECURSIVE TrimStart(_)
TrimStart(s) ==
    IF Len(s) > 0 /\ IsWhitespace(CharAt(s, 0)) THEN TrimStart(SliceFrom(s, 1)) ELSE s

RECURSIVE TrimEnd(_)
TrimEnd(s) ==
    IF Len(s) > 0 /\ IsWhitespace(CharAt(s, Len(s) - 1))
    THEN TrimEnd(Slice(s, 0, Len(s) - 1))
    ELSE s

Trim(s) == TrimEnd(TrimStart(s))

\* length of the leading run of non-whitespace characters
RECURSIVE WordLen(_)
WordLen(s) ==
    IF Len(s) = 0 \/ IsWhitespace(CharAt(s, 0)) THEN 0 ELSE 1 + WordLen(SliceFrom(s, 1))

RECURSIVE SplitWhitespace(_)
SplitWhitespace(s) ==
    LET t == TrimStart(s)
        n == WordLen(t)
    IN  IF Len(t) = 0 THEN <<>>
        ELSE <<Slice(t, 0, n)>> \o SplitWhitespace(SliceFrom(t, n))

\* str::split(pattern): every piece, empty ones included
RECURSIVE Split(_, _)
Split(s, p) ==
    LET i == Find(s, p)
    IN  IF i = -1 THEN <<s>>
        ELSE <<Slice(s, 0, i)>> \o Split(SliceFrom(s, i + Len(p)), p)

\* a split that does not stop at the first match: every piece is its own part
SplitN2_SplitAll(s, p) == Split(s, p)

\* str::splitn(2, pattern)
SplitN2(s, p) ==
    LET i == Find(s, p)
    IN  IF i = -1 THEN <<s>>
        ELSE <<Slice(s, 0, i), SliceFrom(s, i + Len(p))>>

\* the concatenation of the strings cs
RECURSIVE Concat(_)
Concat(cs) == IF Len(cs) = 0 THEN "" ELSE Head(cs) \o Concat(Tail(cs))

\* str::replace for a one-character pattern
RECURSIVE Replace(_, _, _)
Replace(s, c, r) ==
    IF Len(s) = 0 THEN ""
    ELSE (IF CharAt(s, 0) = c THEN r ELSE CharAt(s, 0)) \o Replace(SliceFrom(s, 1), c, r)

\* [String]::join
RECURSIVE Join(_, _)
Join(ws, sep) ==
    IF Len(ws) = 0 THEN ""
    ELSE IF Len(ws) = 1 THEN ws[1]
    ELSE ws[1] \o sep \o Join(Tail(ws), sep)

StripPrefixOr(s, p, dflt) == IF StartsWith(s, p) THEN SliceFrom(s, Len(p)) ELSE dflt

StripSuffixOr(s, p, dflt) == IF EndsWith(s, p) THEN Slice(s, 0, Len(s) - Len(p)) ELSE dflt

\* str::lines: split at "\n", drop one trailing "\r" per line, no empty last line
RECURSIVE Lines(_)
Lines(s) ==
    LET i == Find(s, "\n")
        strip(l) == IF EndsWith(l, "\r") THEN Slice(l, 0, Len(l) - 1) ELSE l
    IN  IF Len(s) = 0 THEN <<>>
        ELSE IF i = -1 THEN <<s>>
        ELSE <<strip(Slice(s, 0, i))>> \o Lines(SliceFrom(s, i + 1))

SeqsUpTo(S, n) == UNION {[1..k -> S] : k \in 0..n}

----------------------------------------------------------------------------
(* AST model                                                               *)

Panic == [type |-> "Panic"]

IsPanic(c) == c.type = "Panic"

AnyPanic(cs) == \E i \in 1..Len(cs) : IsPanic(cs[i])

Simple(n, a, asg, redirs) ==
    [type |-> "Simple", name |-> n, args |-> a, assignments |-> asg, redirections |-> redirs]

Pipeline(cs, neg) == [type |-> "Pipeline", commands |-> cs, negated |-> neg]

\* a parser that gives an if an else branch and a case its arms
Compound_WithBranches(k, redirs) ==
    [type |-> "Compound",
     kind |-> IF k.kind = "If" THEN [k EXCEPT !.else_body = [some |-> TRUE, body |-> k.then_body]]
              ELSE IF k.kind = "Case" THEN [k EXCEPT !.items = <<k.word>>]
              ELSE k,
     redirections |-> redirs]

Compound(k, redirs) == [type |-> "Compound", kind |-> k, redirections |-> redirs]

AndOr(l, o, r) == [type |-> "AndOr", left |-> l, operator |-> o, right |-> r]

List(cs, sep) == [type |-> "List", commands |-> cs, separator |-> sep]

Assignment(n, v) == [name |-> n, value |-> v]

Redirection(f, o, t) == [fd |-> f, operator |-> o, target |-> t]

PosixScript(cs) == [type |-> "Script", commands |-> cs]

\* a compound node whose bodies all parsed, or the panic that one of them raised
CompoundOf(k, parts) == IF AnyPanic(parts) THEN Panic ELSE Compound(k, <<>>)

\* the commands directly inside a command
Children(c) ==
    CASE c.type \in {"Pipeline", "List"} -> c.commands
      [] c.type = "AndOr" -> <<c.left, c.right>>
      [] c.type = "Compound" ->
            (CASE c.kind.kind = "If" -> c.kind.condition \o c.kind.then_body
               [] c.kind.kind = "For" -> c.kind.body
               [] c.kind.kind \in {"While", "Until"} -> c.kind.condition \o c.kind.body
               [] c.kind.kind \in {"BraceGroup", "Subshell"} -> c.kind.body
               [] OTHER -> <<>>)
      [] OTHER -> <<>>

\* a command and every command nested in it, in source order
RECURSIVE Nodes(_)
Nodes(c) ==
    LET RECURSIVE All(_)
        All(cs) == IF Len(cs) = 0 THEN <<>> ELSE Nodes(Head(cs)) \o All(Tail(cs))
    IN  <<c>> \o All(Children(c))

\* every command of a script, nested ones included
ScriptNodes(s) == Concat([i \in 1..Len(s.commands) |-> Nodes(s.commands[i])])

----------------------------------------------------------------------------
(* Heuristic parser: parser_posix.rs                                       *)

EmptySimple == Simple("", <<>>, <<>>, <<>>)

\* an assignment loop that peels every NAME=VALUE token, also after the name
ScanParts_EveryAssignment(parts, found_command, assignments, command_parts) ==
    LET Peeled(part) == Contains(part, "=") /\ ~StartsWith(part, "-")
        Kept(part) == ~Peeled(part)
        peeled == SelectSeq(parts, Peeled)
    IN  [assignments |->
             [i \in 1..Len(peeled) |->
                 [name |-> Slice(peeled[i], 0, Find(peeled[i], "=")),
                  value |-> SliceFrom(peeled[i], Find(peeled[i], "=") + 1)]],
         command_parts |-> SelectSeq(parts, Kept)]

\* the assignment loop of parse_heuristic_command, over the whitespace-split parts
RECURSIVE ScanParts(_, _, _, _)
ScanParts(parts, found_command, assignments, command_parts) ==
    IF Len(parts) = 0
    THEN [assignments |-> assignments, command_parts |-> command_parts]
    ELSE LET part == Head(parts)
             assignment_parts == SplitN2(part, "=")
         IN  IF /\ ~found_command
                /\ Contains(part, "=")
                /\ ~StartsWith(part, "-")
                /\ Len(assignment_parts) = 2
             THEN ScanParts(Tail(parts), found_command,
                            Append(assignments,
                                   Assignment(assignment_parts[1], assignment_parts[2])),
                            command_parts)
             ELSE ScanParts(Tail(parts), TRUE, assignments, Append(command_parts, part))

\* a parser that takes the words holding `>` out as redirections
ParseSimple_RedirectionsExtracted(command_str) ==
    LET IsWord(w) == ~Contains(w, ">")
        IsRedirection(w) == Contains(w, ">")
        scan == ScanParts(SelectSeq(SplitWhitespace(command_str), IsWord), FALSE, <<>>, <<>>)
        targets == SelectSeq(SplitWhitespace(command_str), IsRedirection)
        cp == scan.command_parts
    IN  Simple(IF Len(cp) = 0 THEN "" ELSE cp[1],
               IF Len(cp) = 0 THEN <<>> ELSE Tail(cp),
               scan.assignments,
               [i \in 1..Len(targets) |-> Redirection([some |-> FALSE, val |-> 0], "Output", targets[i])])

ParseSimple(command_str) ==
    LET scan == ScanParts(SplitWhitespace(command_str), FALSE, <<>>, <<>>)
        cp == scan.command_parts
    IN  Simple(IF Len(cp) = 0 THEN "" ELSE cp[1],
               IF Len(cp) = 0 THEN <<>> ELSE Tail(cp),
               scan.assignments, <<>>)

\* a parser that looks for `||` before `&&`
AndOrSplit_OrFirst(command_str) ==
    IF Contains(command_str, "||")
    THEN [parts |-> SplitN2(command_str, "||"), op |-> "Or"]
    ELSE [parts |-> SplitN2(command_str, "&&"), op |-> "And"]

\* `&&` is looked for before `||`; the line is cut at the first match of the one found
AndOrSplit(command_str) ==
    IF Contains(command_str, "&&")
    THEN [parts |-> SplitN2(command_str, "&&"), op |-> "And"]
    ELSE [parts |-> SplitN2(command_str, "||"), op |-> "Or"]

RECURSIVE parse_heuristic_command(_)
parse_heuristic_command(command_str) ==
    LET parse_all(strs) == [i \in 1..Len(strs) |-> parse_heuristic_command(Trim(strs[i]))]
        in_pos == Find(command_str, " in ")
        do_pos == Find(command_str, " do ")
        case_in == Find(command_str, " in")
        n == Len(command_str)
        body_after_do ==
            StripSuffixOr(SliceFrom(command_str, do_pos + 4), " done",
                          SliceFrom(command_str, do_pos + 4))
    IN
    IF Len(SplitWhitespace(command_str)) = 0 THEN EmptySimple
    ELSE IF Contains(command_str, "|") /\ ~Contains(command_str, "||") THEN
        LET commands == parse_all(Split(command_str, "|"))
        IN  IF AnyPanic(commands) THEN Panic ELSE Pipeline(commands, FALSE)
    ELSE IF Contains(command_str, "&&") \/ Contains(command_str, "||") THEN
        LET sp == AndOrSplit(command_str)
            left == parse_heuristic_command(Trim(sp.parts[1]))
            right == parse_heuristic_command(
                         Trim(IF Len(sp.parts) >= 2 THEN sp.parts[2] ELSE ""))
        IN  IF IsPanic(left) \/ IsPanic(right) THEN Panic ELSE AndOr(left, sp.op, right)
    ELSE IF StartsWith(command_str, "if ") /\ Len(SplitN2(command_str, " then ")) = 2 THEN
        LET condition_and_body == SplitN2(command_str, " then ")
            condition == parse_heuristic_command(
                             StripPrefixOr(condition_and_body[1], "if ", ""))
            then_body == parse_heuristic_command(
                             StripSuffixOr(condition_and_body[2], " fi",
                                           condition_and_body[2]))
        IN  CompoundOf([kind |-> "If", condition |-> <<condition>>,
                        then_body |-> <<then_body>>, elif_parts |-> <<>>,
                        else_body |-> [some |-> FALSE, body |-> <<>>]],
                       <<condition, then_body>>)
    ELSE IF StartsWith(command_str, "for ") /\ in_pos # -1 /\ do_pos # -1 THEN
        IF ~SliceOk(command_str, 4, in_pos) \/ ~SliceOk(command_str, in_pos + 4, do_pos)
        THEN Panic
        ELSE LET body == parse_heuristic_command(body_after_do)
             IN  CompoundOf([kind |-> "For",
                             variable |-> Slice(command_str, 4, in_pos),
                             words |-> SplitWhitespace(
                                           Slice(command_str, in_pos + 4, do_pos)),
                             body |-> <<body>>],
                            <<body>>)
    ELSE IF StartsWith(command_str, "while ") /\ do_pos # -1 THEN
        IF ~SliceOk(command_str, 6, do_pos) THEN Panic
        ELSE LET condition == parse_heuristic_command(Trim(Slice(command_str, 6, do_pos)))
                 body == parse_heuristic_command(body_after_do)
             IN  CompoundOf([kind |-> "While", condition |-> <<condition>>,
                             body |-> <<body>>],
                            <<condition, body>>)
    ELSE IF StartsWith(command_str, "until ") /\ do_pos # -1 THEN
        IF ~SliceOk(command_str, 6, do_pos) THEN Panic
        ELSE LET condition == parse_heuristic_command(Trim(Slice(command_str, 6, do_pos)))
                 body == parse_heuristic_command(body_after_do)
             IN  CompoundOf([kind |-> "Until", condition |-> <<condition>>,
                             body |-> <<body>>],
                            <<condition, body>>)
    ELSE IF StartsWith(command_str, "case ") /\ case_in # -1 THEN
        IF ~SliceOk(command_str, 5, case_in) THEN Panic
        ELSE Compound([kind |-> "Case", word |-> Trim(Slice(command_str, 5, case_in)),
                       items |-> <<>>], <<>>)
    ELSE IF StartsWith(command_str, "{ ") /\ EndsWith(command_str, " }") THEN
        IF ~SliceOk(command_str, 2, n - 2) THEN Panic
        ELSE LET inner == parse_heuristic_command(Slice(command_str, 2, n - 2))
             IN  CompoundOf([kind |-> "BraceGroup", body |-> <<inner>>], <<inner>>)
    ELSE IF StartsWith(command_str, "( ") /\ EndsWith(command_str, " )") THEN
        IF ~SliceOk(command_str, 2, n - 2) THEN Panic
        ELSE LET inner == parse_heuristic_command(Slice(command_str, 2, n - 2))
             IN  CompoundOf([kind |-> "Subshell", body |-> <<inner>>], <<inner>>)
    ELSE IF StartsWith(command_str, "$(( ") /\ EndsWith(command_str, " ))") THEN
        IF ~SliceOk(command_str, 4, n - 3) THEN Panic
        ELSE Compound([kind |-> "Arithmetic",
                       expression |-> Slice(command_str, 4, n - 3)], <<>>)
    ELSE ParseSimple(command_str)

\* the lines that become commands: trimmed, non-empty, not a comment
RECURSIVE CommandLines(_)
CommandLines(ls) ==
    IF Len(ls) = 0 THEN <<>>
    ELSE LET trimmed == Trim(Head(ls))
         IN  IF Len(trimmed) > 0 /\ ~StartsWith(trimmed, "#")
             THEN <<trimmed>> \o CommandLines(Tail(ls))
             ELSE CommandLines(Tail(ls))

parse_with_heuristic_parser(text) ==
    LET ls == CommandLines(Lines(text))
        commands == [i \in 1..Len(ls) |-> parse_heuristic_command(ls[i])]
    IN  IF AnyPanic(commands) THEN Panic ELSE PosixScript(commands)

\* parse_with_yash_syntax always fails, so the fallback always runs
parse_posix_script(text) == parse_with_heuristic_parser(text)

----------------------------------------------------------------------------
(* i32 parsing, arithmetic and formatting                                  *)

I32_MAX == 2147483647

I32_MIN == -2147483647 - 1

Digits == <<"0", "1", "2", "3", "4", "5", "6", "7", "8", "9">>

IsDigit(c) == \E d \in 1..10 : Digits[d] = c

DigitVal(c) == (CHOOSE d \in 1..10 : Digits[d] = c) - 1

\* i32::from_str accumulates towards the sign and fails on overflow:
\* acc is the value so far, sign is 1 or -1; the result is [ok, val]
RECURSIVE AccumulateI32(_, _, _)
AccumulateI32(s, sign, acc) ==
    IF Len(s) = 0 THEN [ok |-> TRUE, val |-> acc]
    ELSE IF ~IsDigit(CharAt(s, 0)) THEN [ok |-> FALSE, val |-> 0]
    ELSE LET d == DigitVal(CharAt(s, 0))
         IN  IF sign = 1
             THEN IF acc > (I32_MAX - d) \div 10 THEN [ok |-> FALSE, val |-> 0]
                  ELSE AccumulateI32(SliceFrom(s, 1), sign, acc * 10 + d)
             ELSE IF acc < (I32_MIN + d + 9) \div 10 THEN [ok |-> FALSE, val |-> 0]
                  ELSE AccumulateI32(SliceFrom(s, 1), sign, acc * 10 - d)

\* str::parse::<i32>
ParseI32(s) ==
    IF Len(s) = 0 THEN [ok |-> FALSE, val |-> 0]
    ELSE IF CharAt(s, 0) = "-" THEN
        IF Len(s) = 1 THEN [ok |-> FALSE, val |-> 0]
        ELSE AccumulateI32(SliceFrom(s, 1), -1, 0)
    ELSE IF CharAt(s, 0) = "+" THEN
        IF Len(s) = 1 THEN [ok |-> FALSE, val |-> 0]
        ELSE AccumulateI32(SliceFrom(s, 1), 1, 0)
    ELSE AccumulateI32(s, 1, 0)

RECURSIVE NatToStr(_)
NatToStr(n) == IF n < 10 THEN Digits[n + 1] ELSE NatToStr(n \div 10) \o Digits[(n % 10) + 1]

\* Display for i32
IntToStr(n) ==
    IF n >= 0 THEN NatToStr(n)
    ELSE IF n = I32_MIN THEN "-2147483648"
    ELSE "-" \o NatToStr(-n)

\* a - b on i32: the value when it fits, otherwise the wrapped value and the
\* overflow flag (the build decides between a panic and the wrapped value)
I32Sub1(a) ==
    IF a = I32_MIN THEN [overflow |-> TRUE, val |-> I32_MAX]
    ELSE [overflow |-> FALSE, val |-> a - 1]

----------------------------------------------------------------------------
(* Conversion results                                                      *)

Ok(t) == [kind |-> "Ok", text |-> t]

PanicResult == [kind |-> "Panic", text |-> ""]

\* text computed past an i32 overflow: a panic with overflow checks, t without
Overflowed(t) == [kind |-> "Overflow", text |-> t]

NoResult == [kind |-> "None", text |-> ""]

Texts(rs) == [i \in 1..Len(rs) |-> rs[i].text]

\* the kind of a result built from the results rs
KindOf(rs) ==
    IF \E i \in 1..Len(rs) : rs[i].kind = "Panic" THEN "Panic"
    ELSE IF \E i \in 1..Len(rs) : rs[i].kind = "Overflow" THEN "Overflow"
    ELSE "Ok"

\* a result whose text t was formatted from the results rs
Built(rs, t) == IF KindOf(rs) = "Panic" THEN PanicResult ELSE [kind |-> KindOf(rs), text |-> t]

\* what the build makes of a result
Outcomes(r) == IF r.kind = "Overflow" THEN {PanicResult, Ok(r.text)} ELSE {r}

----------------------------------------------------------------------------
(* Quoting helpers                                                         *)

Quoted(a) == "\"" \o Replace(a, "\"", "\\\"") \o "\""

\* PosixToNuConverter::quote_arg
PosixToNuConverter_quote_arg(a) ==
    IF Contains(a, " ") \/ Contains(a, "\"") \/ Contains(a, "'") \/ Contains(a, "$")
    THEN Quoted(a)
    ELSE a

\* sus::BaseConverter::quote_arg
BaseConverter_quote_arg(a) ==
    IF Contains(a, " ") \/ Contains(a, "$") \/ Contains(a, "*") \/ Contains(a, "?")
    THEN Quoted(a)
    ELSE a

\* builtin::BaseBuiltinConverter::quote_arg
BaseBuiltinConverter_quote_arg(a) ==
    IF Contains(a, " ") \/ Contains(a, "$") \/ Contains(a, "*") \/ Contains(a, "?")
    THEN Quoted(a)
    ELSE a

\* a format_args that joins the arguments first and quotes the joined text
PosixToNuConverter_format_args_JoinedFirst(as) ==
    PosixToNuConverter_quote_arg(Join(as, " "))

PosixToNuConverter_format_args(as) ==
    Join([i \in 1..Len(as) |-> PosixToNuConverter_quote_arg(as[i])], " ")

BaseConverter_format_args(as) ==
    Join([i \in 1..Len(as) |-> BaseConverter_quote_arg(as[i])], " ")

BaseBuiltinConverter_format_args(as) ==
    Join([i \in 1..Len(as) |-> BaseBuiltinConverter_quote_arg(as[i])], " ")

----------------------------------------------------------------------------
(* Conversion dispatcher: converter.rs                                     *)

RECURSIVE TrimMatchesStart(_, _)
TrimMatchesStart(s, c) ==
    IF Len(s) > 0 /\ CharAt(s, 0) = c THEN TrimMatchesStart(SliceFrom(s, 1), c) ELSE s

RECURSIVE TrimMatchesEnd(_, _)
TrimMatchesEnd(s, c) ==
    IF Len(s) > 0 /\ CharAt(s, Len(s) - 1) = c
    THEN TrimMatchesEnd(Slice(s, 0, Len(s) - 1), c)
    ELSE s

\* str::trim_matches for one character
TrimMatches(s, c) == TrimMatchesEnd(TrimMatchesStart(s, c), c)

HasArg(as, a) == \E i \in 1..Len(as) : as[i] = a

\* the nu_args an `ls` argument contributes
LsNuArgs(a) ==
    CASE a = "-l" -> <<"--long">>
      [] a = "-a" -> <<"--all">>
      [] a \in {"-la", "-al"} -> <<"--long", "--all">>
      [] a = "-h" -> <<"--help">>
      [] a = "-d" -> <<"| where type == dir">>
      [] OTHER -> IF StartsWith(a, "-") THEN <<a>> ELSE <<PosixToNuConverter_quote_arg(a)>>

RECURSIVE LsCollect(_)
LsCollect(as) == IF Len(as) = 0 THEN <<>> ELSE LsNuArgs(Head(as)) \o LsCollect(Tail(as))

\* the `-N` shorthand of head and tail
IsDashNumber(as) ==
    Len(as) = 1 /\ StartsWith(as[1], "-") /\ ParseI32(SliceFrom(as[1], 1)).ok

ConvertFind(as) ==
    LET Q(a) == PosixToNuConverter_quote_arg(a)
        passthrough == "find " \o PosixToNuConverter_format_args(as)
    IN  IF Len(as) >= 3 /\ as[2] = "-name" THEN
            IF as[1] = "." THEN "ls **/" \o TrimMatches(as[3], "\"")
            ELSE "ls " \o Q(as[1]) \o "//**/" \o TrimMatches(as[3], "\"")
        ELSE IF Len(as) >= 3 /\ as[2] = "-type" THEN
            LET base_path == IF as[1] = "." THEN "" ELSE as[1]
            IN  CASE as[3] = "d" -> "ls " \o base_path \o "/**/* | where type == dir"
                  [] as[3] = "f" -> "ls " \o base_path \o "/**/* | where type == file"
                  [] OTHER -> passthrough
        ELSE IF Len(as) >= 5 /\ as[2] = "-name" /\ as[4] = "-type" THEN
            LET base_path == IF as[1] = "." THEN "**/" ELSE as[1] \o "/**/"
                pattern == TrimMatches(as[3], "\"")
            IN  CASE as[5] = "d" -> "ls " \o base_path \o pattern \o " | where type == dir"
                  [] as[5] = "f" -> "ls " \o base_path \o pattern \o " | where type == file"
                  [] OTHER -> passthrough
        ELSE passthrough

\* the `cut` arm: the only arithmetic of the dispatcher
ConvertCut(as) ==
    LET Q(a) == PosixToNuConverter_quote_arg(a)
        passthrough == Ok("cut " \o PosixToNuConverter_format_args(as))
    IN  IF Len(as) = 0 THEN Ok("cut")
        ELSE IF Len(as) >= 2 /\ as[1] = "-d" THEN
            IF Len(as) >= 4 /\ as[3] = "-f" THEN
                LET parsed == ParseI32(as[4])
                    field == IF parsed.ok THEN parsed.val ELSE 1
                    index == I32Sub1(field)
                    text == "split row " \o Q(as[2]) \o " | get " \o IntToStr(index.val)
                IN  IF index.overflow THEN Overflowed(text) ELSE Ok(text)
            ELSE passthrough
        ELSE passthrough

ConvertAwk(as) ==
    LET passthrough == "awk " \o PosixToNuConverter_format_args(as)
    IN  IF Len(as) = 0 THEN "awk"
        ELSE IF /\ Len(as) = 1
                /\ StartsWith(as[1], "{") /\ EndsWith(as[1], "}")
                /\ Contains(as[1], "print")
             THEN "each { |row| print $row }"
        ELSE passthrough

ConvertSed(as) ==
    LET Q(a) == PosixToNuConverter_quote_arg(a)
        passthrough == "sed " \o PosixToNuConverter_format_args(as)
    IN  IF Len(as) = 0 THEN "sed"
        ELSE IF Len(as) = 1 /\ StartsWith(as[1], "s/") /\ Len(Split(as[1], "/")) >= 3
             THEN LET parts == Split(as[1], "/")
                  IN  "str replace " \o Q(parts[2]) \o " " \o Q(parts[3])
        ELSE passthrough

RECURSIVE convert_test_command(_)
RECURSIVE TestScan(_, _, _)

\* the `-a` / `-o` loop of convert_test_command, from index i (0-based)
TestScan(as, i, acc) ==
    IF i >= Len(as) THEN acc
    ELSE IF i + 2 < Len(as) /\ as[i + 2] \in {"-a", "&&"} THEN
        TestScan(as, i + 2,
                 (IF Len(acc) > 0 THEN acc \o " and " ELSE acc)
                     \o "(" \o convert_test_command(<<as[i + 1]>>) \o ")")
    ELSE IF i + 2 < Len(as) /\ as[i + 2] \in {"-o", "||"} THEN
        TestScan(as, i + 2,
                 (IF Len(acc) > 0 THEN acc \o " or " ELSE acc)
                     \o "(" \o convert_test_command(<<as[i + 1]>>) \o ")")
    ELSE TestScan(as, i + 1, acc)

convert_test_command(as) ==
    LET Q(a) == PosixToNuConverter_quote_arg(a)
        passthrough == "test " \o PosixToNuConverter_format_args(as)
        PathType(a, t) == "(" \o Q(a) \o " | path type) == \"" \o t \o "\""
        FileCompare(l, r, what, cmp) ==
            "(" \o Q(l) \o " | path exists) and (" \o Q(r) \o " | path exists) and (("
                \o Q(l) \o " | get " \o what \o ") " \o cmp \o " (" \o Q(r)
                \o " | get " \o what \o "))"
    IN
    IF Len(as) = 0 THEN "false"
    ELSE IF Len(as) = 1 THEN
        IF as[1] = "]" THEN "true" ELSE "(" \o Q(as[1]) \o " | is-not-empty)"
    ELSE IF Len(as) = 2 THEN
        LET op == as[1]
            a == as[2]
        IN  CASE op \in {"-f", "-e", "-w", "-x"} -> "(" \o Q(a) \o " | path exists)"
              [] op = "-d" -> PathType(a, "dir")
              [] op = "-r" -> "(" \o Q(a) \o " | path exists and (" \o Q(a)
                                  \o " | path type) == \"file\")"
              [] op = "-s" -> "(" \o Q(a) \o " | path exists and (open " \o Q(a)
                                  \o " | length) > 0)"
              [] op = "-L" -> PathType(a, "symlink")
              [] op = "-b" -> PathType(a, "block")
              [] op = "-c" -> PathType(a, "char")
              [] op = "-p" -> PathType(a, "fifo")
              [] op = "-S" -> PathType(a, "socket")
              [] op = "-t" -> "(" \o Q(a) \o " | into int) in [0, 1, 2]"
              [] op = "-z" -> "(" \o Q(a) \o " | is-empty)"
              [] op = "-n" -> "(" \o Q(a) \o " | is-not-empty)"
              [] OTHER -> "test " \o op \o " " \o Q(a)
    ELSE IF Len(as) = 3 THEN
        LET left == as[1]
            op == as[2]
            right == as[3]
        IN  CASE op \in {"=", "=="} -> Q(left) \o " == " \o Q(right)
              [] op = "!=" -> Q(left) \o " != " \o Q(right)
              [] op = "-eq" -> left \o " == " \o right
              [] op = "-ne" -> left \o " != " \o right
              [] op = "-lt" -> left \o " < " \o right
              [] op = "-le" -> left \o " <= " \o right
              [] op = "-gt" -> left \o " > " \o right
              [] op = "-ge" -> left \o " >= " \o right
              [] op = "-nt" -> FileCompare(left, right, "modified", ">")
              [] op = "-ot" -> FileCompare(left, right, "modified", "<")
              [] op = "-ef" -> FileCompare(left, right, "inode", "==")
              [] OTHER -> "test " \o left \o " " \o op \o " " \o right
    ELSE IF Len(as) = 4 THEN
        IF as[1] = "[" /\ as[4] = "]"
        THEN convert_test_command(SubSeq(as, 2, 3))
        ELSE passthrough
    ELSE
        IF as[1] = "[" /\ as[Len(as)] = "]"
        THEN convert_test_command(SubSeq(as, 2, Len(as) - 1))
        ELSE LET scanned == TestScan(as, 0, "")
             IN  IF Len(scanned) = 0 THEN passthrough ELSE scanned

\* PosixToNuConverter::convert_command_name
convert_command_name(n, as) ==
    LET Q(a) == PosixToNuConverter_quote_arg(a)
        FA == PosixToNuConverter_format_args(as)
        With(prefix) == Ok(prefix \o " " \o FA)
        DashN(word) ==
            IF Len(as) = 0 THEN Ok(word \o " 10")
            ELSE IF Len(as) = 2 /\ as[1] = "-n" THEN Ok(word \o " " \o as[2])
            ELSE IF IsDashNumber(as) THEN Ok(word \o " " \o SliceFrom(as[1], 1))
            ELSE With(n)
    IN
    CASE n = "echo" -> IF Len(as) = 0 THEN Ok("print") ELSE With("print")
      [] n = "cat" -> IF Len(as) = 0 THEN Ok("input") ELSE With("open --raw")
      [] n = "ls" -> IF Len(as) = 0 \/ Len(LsCollect(as)) = 0 THEN Ok("ls")
                     ELSE Ok("ls " \o Join(LsCollect(as), " "))
      [] n = "grep" ->
            IF Len(as) = 0 THEN Ok("grep")
            ELSE IF Len(as) = 1 THEN Ok("where $it =~ " \o Q(as[1]))
            ELSE IF Len(as) = 2
                 THEN Ok("open " \o Q(as[2]) \o " | lines | where $it =~ " \o Q(as[1]))
            ELSE With("grep")
      [] n = "find" -> IF Len(as) = 0 THEN Ok("find") ELSE Ok(ConvertFind(as))
      [] n = "sort" -> Ok("sort")
      [] n = "uniq" -> Ok("uniq")
      [] n = "head" -> DashN("first")
      [] n = "tail" -> DashN("last")
      [] n = "wc" ->
            IF Len(as) = 0 THEN Ok("wc")
            ELSE IF HasArg(as, "-l") THEN Ok("lines | length")
            ELSE IF HasArg(as, "-w") THEN Ok("str words | length")
            ELSE IF HasArg(as, "-c") THEN Ok("str length")
            ELSE With("wc")
      [] n = "cut" -> ConvertCut(as)
      [] n = "awk" -> Ok(ConvertAwk(as))
      [] n = "sed" -> Ok(ConvertSed(as))
      [] n = "rm" -> IF Len(as) = 0 THEN Ok("rm") ELSE With("rm")
      [] n \in {"cp", "mv"} ->
            IF Len(as) >= 2 THEN Ok(n \o " " \o Q(as[1]) \o " " \o Q(as[2])) ELSE With(n)
      [] n \in {"mkdir", "rmdir", "chmod", "chown", "which", "kill", "stat"} -> With(n)
      [] n \in {"pwd", "whoami", "ps", "jobs", "true", "false"} -> Ok(n)
      [] n = "cd" -> IF Len(as) = 0 THEN Ok("cd") ELSE Ok("cd " \o Q(as[1]))
      [] n = "date" ->
            IF Len(as) = 0 THEN Ok("date now")
            ELSE IF Len(as) = 2 /\ as[1] = "-d" THEN Ok(Q(as[2]) \o " | into datetime")
            ELSE With("date")
      [] n = "exit" -> IF Len(as) = 0 THEN Ok("exit") ELSE Ok("exit " \o as[1])
      [] n = "seq" ->
            IF Len(as) = 1 THEN Ok("1.." \o as[1])
            ELSE IF Len(as) = 2 THEN Ok(as[1] \o ".." \o as[2])
            ELSE IF Len(as) = 3 THEN Ok(as[1] \o ".." \o as[3] \o " | step " \o as[2])
            ELSE With("seq")
      [] n = "read" ->
            IF Len(as) = 0 THEN Ok("input")
            ELSE IF Len(as) = 1 /\ as[1] = "-s" THEN Ok("input -s")
            ELSE With("read")
      [] n = "basename" -> With("path basename")
      [] n = "dirname" -> With("path dirname")
      [] n = "realpath" -> With("path expand")
      [] n = "tee" ->
            IF Len(as) = 1 THEN Ok("tee { save " \o Q(as[1]) \o " }") ELSE With("tee")
      [] n \in {"test", "["} -> Ok(convert_test_command(as))
      [] OTHER -> IF Len(as) = 0 THEN Ok(n) ELSE With(n)

None == [some |-> FALSE, val |-> 0]

Some(v) == [some |-> TRUE, val |-> v]

\* the text one redirection contributes in convert_redirections
ConvertRedirection(redir) ==
    LET Q(a) == PosixToNuConverter_quote_arg(a)
        o == redir.operator
    IN  CASE o = "Input" -> "< " \o Q(redir.target)
          [] o = "Output" -> "out> " \o Q(redir.target)
          [] o = "Append" -> "out>> " \o Q(redir.target)
          [] o = "InputOutput" -> "<> " \o Q(redir.target)
          [] o = "Clobber" -> "out> " \o Q(redir.target)
          [] o = "InputHereDoc" -> "echo " \o Q(redir.target) \o " | # stdin"
          [] o = "InputHereString" -> "echo " \o Q(redir.target) \o " |"
          [] o = "OutputDup" ->
                IF redir.fd.some
                THEN CASE redir.fd.val = 1 -> "out> " \o Q(redir.target)
                       [] redir.fd.val = 2 -> "err> " \o Q(redir.target)
                       [] OTHER -> "# TODO: output dup fd " \o IntToStr(redir.fd.val)
                                       \o " to " \o redir.target
                ELSE "out> " \o Q(redir.target)
          [] o = "InputDup" ->
                IF redir.fd.some
                THEN "# TODO: input dup fd " \o IntToStr(redir.fd.val)
                         \o " from " \o redir.target
                ELSE "< " \o Q(redir.target)

convert_redirections(redirs) ==
    Join([i \in 1..Len(redirs) |-> ConvertRedirection(redirs[i])], " ")

\* a command conversion that leaves its redirections out
RedirectionSuffix_Dropped(redirs) == ""

\* the suffix a command's redirections add to its text
RedirectionSuffix(redirs) ==
    IF Len(redirs) > 0 /\ Len(convert_redirections(redirs)) > 0
    THEN " " \o convert_redirections(redirs)
    ELSE ""

\* a prefix that renders the first assignment only
AssignmentPrefix_FirstOnly(asg) ==
    IF Len(asg) = 0 THEN ""
    ELSE "$" \o Head(asg).name \o " = \"" \o Head(asg).value \o "\"; "

\* the `$NAME = "VALUE"; ` prefixes of convert_simple_command
RECURSIVE AssignmentPrefix(_)
AssignmentPrefix(asg) ==
    IF Len(asg) = 0 THEN ""
    ELSE "$" \o Head(asg).name \o " = \"" \o Head(asg).value \o "\"; "
             \o AssignmentPrefix(Tail(asg))

convert_simple_command(cmd) ==
    LET named == IF Len(cmd.name) > 0 THEN convert_command_name(cmd.name, cmd.args)
                 ELSE Ok("")
    IN  Built(<<named>>,
              AssignmentPrefix(cmd.assignments) \o named.text
                  \o RedirectionSuffix(cmd.redirections))

\* the "  {}\n" lines of a block body, with the given indent
BlockLines(texts, indent) ==
    Join([i \in 1..Len(texts) |-> indent \o texts[i] \o "\n"], "")

RECURSIVE convert_command(_)

ConvertAll(cs) == [i \in 1..Len(cs) |-> convert_command(cs[i])]

\* one arm of a `match` block
ConvertCaseItem(item) ==
    LET body == ConvertAll(item.body)
        patterns == Join([i \in 1..Len(item.patterns) |->
                              PosixToNuConverter_quote_arg(item.patterns[i])], " | ")
    IN  Built(body, "  " \o patterns \o " => {\n" \o BlockLines(Texts(body), "    ")
                        \o "  }\n")

\* one `else if` branch
ConvertElif(elif) ==
    LET cond == ConvertAll(elif.condition)
        body == ConvertAll(elif.body)
    IN  Built(cond \o body,
              "} else if " \o Join(Texts(cond), "; ") \o " {\n"
                  \o BlockLines(Texts(body), "  "))

convert_compound_kind(k) ==
    CASE k.kind = "BraceGroup" ->
            LET body == ConvertAll(k.body)
            IN  Built(body, "{\n" \o BlockLines(Texts(body), "  ") \o "}")
      [] k.kind = "Subshell" ->
            LET body == ConvertAll(k.body)
            IN  Built(body, "(" \o Join(Texts(body), "; ") \o ")")
      [] k.kind = "For" ->
            LET body == ConvertAll(k.body)
                items == IF Len(k.words) = 0 THEN "$in"
                         ELSE "[" \o Join([i \in 1..Len(k.words) |->
                                              PosixToNuConverter_quote_arg(k.words[i])],
                                          ", ") \o "]"
            IN  Built(body, items \o " | each { |" \o k.variable \o "| \n"
                                \o BlockLines(Texts(body), "  ") \o "}")
      [] k.kind = "While" ->
            LET cond == ConvertAll(k.condition)
                body == ConvertAll(k.body)
            IN  Built(cond \o body,
                      "while " \o Join(Texts(cond), "; ") \o " {\n"
                          \o BlockLines(Texts(body), "  ") \o "}")
      [] k.kind = "Until" ->
            LET cond == ConvertAll(k.condition)
                body == ConvertAll(k.body)
            IN  Built(cond \o body,
                      "while not (" \o Join(Texts(cond), "; ") \o ") {\n"
                          \o BlockLines(Texts(body), "  ") \o "}")
      [] k.kind = "If" ->
            LET cond == ConvertAll(k.condition)
                then_body == ConvertAll(k.then_body)
                elifs == [i \in 1..Len(k.elif_parts) |-> ConvertElif(k.elif_parts[i])]
                else_body == IF k.else_body.some THEN ConvertAll(k.else_body.body)
                             ELSE <<>>
            IN  Built(cond \o then_body \o elifs \o else_body,
                      "if " \o Join(Texts(cond), "; ") \o " {\n"
                          \o BlockLines(Texts(then_body), "  ")
                          \o Join(Texts(elifs), "")
                          \o (IF k.else_body.some
                              THEN "} else {\n" \o BlockLines(Texts(else_body), "  ")
                              ELSE "")
                          \o "}")
      [] k.kind = "Case" ->
            LET items == [i \in 1..Len(k.items) |-> ConvertCaseItem(k.items[i])]
            IN  Built(items, "match " \o PosixToNuConverter_quote_arg(k.word) \o " {\n"
                                 \o Join(Texts(items), "") \o "}")
      [] k.kind = "Function" ->
            LET body == ConvertAll(k.body)
            IN  Built(body, "def " \o k.name \o " [] {\n"
                                \o BlockLines(Texts(body), "  ") \o "}")
      [] k.kind = "Arithmetic" -> Ok("math eval \"" \o k.expression \o "\"")

convert_compound_command(comp) ==
    LET kind == convert_compound_kind(comp.kind)
    IN  Built(<<kind>>, kind.text \o RedirectionSuffix(comp.redirections))

convert_pipeline(pipe) ==
    LET parts == ConvertAll(pipe.commands)
        joined == Join(Texts(parts), " | ")
    IN  Built(parts, IF pipe.negated THEN "not (" \o joined \o ")" ELSE joined)

convert_and_or(and_or) ==
    LET left == convert_command(and_or.left)
        right == convert_command(and_or.right)
    IN  Built(<<left, right>>,
              "(" \o left.text \o ") "
                  \o (IF and_or.operator = "And" THEN "and" ELSE "or")
                  \o " (" \o right.text \o ")")

convert_list(list) ==
    LET parts == ConvertAll(list.commands)
    IN  Built(parts, Join(Texts(parts), IF list.separator = "Sequential" THEN "; " ELSE " &"))

convert_command(command) ==
    CASE command.type = "Simple" -> convert_simple_command(command)
      [] command.type = "Pipeline" -> convert_pipeline(command)
      [] command.type = "Compound" -> convert_compound_command(command)
      [] command.type = "AndOr" -> convert_and_or(command)
      [] command.type = "List" -> convert_list(command)

\* PosixToNuConverter::convert
convert(s) ==
    LET parts == ConvertAll(s.commands)
    IN  Built(parts, Join(Texts(parts), "\n"))

----------------------------------------------------------------------------
(* Builtin converters: builtin/test.rs                                     *)

RECURSIVE TestBuiltinConverter_convert(_)

\* convert_unary_test: reads args[0]
convert_unary_test(as) ==
    IF Len(as) < 1 THEN PanicResult
    ELSE IF as[1] = "]" THEN Ok("true")
    ELSE Ok("(" \o BaseBuiltinConverter_quote_arg(as[1]) \o " | is-not-empty)")

\* convert_binary_test: reads args[0] and args[1]
convert_binary_test(as) ==
    LET Q(a) == BaseBuiltinConverter_quote_arg(a)
        PathType(a, t) == "(" \o Q(a) \o " | path type) == \"" \o t \o "\""
    IN
    IF Len(as) < 2 THEN PanicResult
    ELSE LET op == as[1]
             a == as[2]
         IN  CASE op \in {"-f", "-e", "-w", "-x"} -> Ok("(" \o Q(a) \o " | path exists)")
               [] op = "-d" -> Ok(PathType(a, "dir"))
               [] op = "-r" -> Ok("(" \o Q(a) \o " | path exists and (" \o Q(a)
                                      \o " | path type) == \"file\")")
               [] op = "-s" -> Ok("(" \o Q(a) \o " | path exists and (open " \o Q(a)
                                      \o " | length) > 0)")
               [] op = "-L" -> Ok(PathType(a, "symlink"))
               [] op = "-b" -> Ok(PathType(a, "block"))
               [] op = "-c" -> Ok(PathType(a, "char"))
               [] op = "-p" -> Ok(PathType(a, "fifo"))
               [] op = "-S" -> Ok(PathType(a, "socket"))
               [] op = "-t" -> Ok("(" \o Q(a) \o " | into int) in [0, 1, 2]")
               [] op = "-z" -> Ok("(" \o Q(a) \o " | is-empty)")
               [] op = "-n" -> Ok("(" \o Q(a) \o " | is-not-empty)")
               [] op = "!" ->
                     LET inner == TestBuiltinConverter_convert(<<a>>)
                     IN  Built(<<inner>>, "not (" \o inner.text \o ")")
               [] OTHER -> Ok("test " \o op \o " " \o Q(a))

\* convert_ternary_test: reads args[0], args[1] and args[2]
convert_ternary_test(as) ==
    LET Q(a) == BaseBuiltinConverter_quote_arg(a)
        FileCompare(l, r, what, cmp) ==
            "(" \o Q(l) \o " | path exists) and (" \o Q(r) \o " | path exists) and (("
                \o Q(l) \o " | get " \o what \o ") " \o cmp \o " (" \o Q(r)
                \o " | get " \o what \o "))"
    IN
    IF Len(as) < 3 THEN PanicResult
    ELSE LET left == as[1]
             op == as[2]
             right == as[3]
         IN  CASE op \in {"=", "=="} -> Ok(Q(left) \o " == " \o Q(right))
               [] op = "!=" -> Ok(Q(left) \o " != " \o Q(right))
               [] op = "-eq" -> Ok(left \o " == " \o right)
               [] op = "-ne" -> Ok(left \o " != " \o right)
               [] op = "-lt" -> Ok(left \o " < " \o right)
               [] op = "-le" -> Ok(left \o " <= " \o right)
               [] op = "-gt" -> Ok(left \o " > " \o right)
               [] op = "-ge" -> Ok(left \o " >= " \o right)
               [] op = "-nt" -> Ok(FileCompare(left, right, "modified", ">"))
               [] op = "-ot" -> Ok(FileCompare(left, right, "modified", "<"))
               [] op = "-ef" -> Ok(FileCompare(left, right, "inode", "=="))
               [] op = "=~" -> Ok(Q(left) \o " =~ " \o Q(right))
               [] op = "!~" -> Ok(Q(left) \o " !~ " \o Q(right))
               [] OTHER -> Ok("test " \o left \o " " \o op \o " " \o right)

\* the operator-splitting loop of convert_complex_test: the (part, op) pairs
RECURSIVE SplitTestParts(_, _, _)
SplitTestParts(as, current_part, parts) ==
    IF Len(as) = 0
    THEN IF Len(current_part) > 0
         THEN Append(parts, [part |-> current_part, op |-> ""])
         ELSE parts
    ELSE LET a == Head(as)
             op == IF a \in {"-a", "&&"} THEN "and" ELSE "or"
         IN  IF a \in {"-a", "&&", "-o", "||"}
             THEN IF Len(current_part) > 0
                  THEN SplitTestParts(Tail(as), <<>>,
                                      Append(parts, [part |-> current_part, op |-> op]))
                  ELSE SplitTestParts(Tail(as), current_part, parts)
             ELSE SplitTestParts(Tail(as), Append(current_part, a), parts)

convert_complex_test(as) ==
    LET actual_args ==
            IF Len(as) >= 2 /\ as[1] = "[" /\ as[Len(as)] = "]"
            THEN SubSeq(as, 2, Len(as) - 1)
            ELSE as
        parts == SplitTestParts(actual_args, <<>>, <<>>)
        PartResult(part) ==
            CASE Len(part) = 1 -> convert_unary_test(part)
              [] Len(part) = 2 -> convert_binary_test(part)
              [] Len(part) = 3 -> convert_ternary_test(part)
              [] OTHER -> Ok("test " \o BaseBuiltinConverter_format_args(part))
        results == [i \in 1..Len(parts) |-> PartResult(parts[i].part)]
        pieces == [i \in 1..Len(parts) |->
                      (IF i > 1 THEN " " \o parts[i - 1].op \o " " ELSE "")
                          \o "(" \o results[i].text \o ")"]
    IN  IF Len(actual_args) = 0 \/ Len(parts) = 0 THEN Ok("false")
        ELSE Built(results, Join(pieces, ""))

\* convert_bracket_test: hands args[1..3], two elements, to convert_ternary_test
convert_bracket_test(as) ==
    IF as[1] = "[" /\ as[4] = "]"
    THEN convert_ternary_test(SubSeq(as, 2, 3))
    ELSE convert_complex_test(as)

TestBuiltinConverter_convert(as) ==
    CASE Len(as) = 0 -> Ok("false")
      [] Len(as) = 1 -> convert_unary_test(as)
      [] Len(as) = 2 -> convert_binary_test(as)
      [] Len(as) = 3 -> convert_ternary_test(as)
      [] Len(as) = 4 -> convert_bracket_test(as)
      [] OTHER -> convert_complex_test(as)

----------------------------------------------------------------------------
(* Builtin converters: cd, exit, true, false, pwd                          *)

\* the last element of as that satisfies P, dflt when there is none
LastWhere(as, P(_), dflt) ==
    LET matching == SelectSeq(as, P)
    IN  IF Len(matching) = 0 THEN dflt ELSE matching[Len(matching)]

CdBuiltinConverter_convert(as) ==
    LET IsPath(a) == ~StartsWith(a, "-")
        path == LastWhere(as, IsPath, "")
    IN  IF Len(as) = 0 THEN Ok("cd")
        ELSE IF HasArg(as, "-") THEN Ok("cd -")
        ELSE IF Len(path) = 0 \/ path = "~" THEN Ok("cd")
        ELSE Ok("cd " \o BaseBuiltinConverter_quote_arg(path))

ExitBuiltinConverter_convert(as) ==
    IF Len(as) = 0 THEN Ok("exit")
    ELSE IF ParseI32(as[1]).ok THEN Ok("exit " \o IntToStr(ParseI32(as[1]).val))
    ELSE Ok("exit 1")

TrueBuiltinConverter_convert(as) == Ok("true")

FalseBuiltinConverter_convert(as) == Ok("false")

PwdBuiltinConverter_convert(as) ==
    LET IsMode(a) == a \in {"-L", "--logical", "-P", "--physical"}
        mode == LastWhere(as, IsMode, "-L")
    IN  IF Len(as) = 0 \/ mode \in {"-L", "--logical"} THEN Ok("pwd")
        ELSE Ok("pwd | path expand")

----------------------------------------------------------------------------
(* Builtin converters: builtin/kill.rs                                     *)

\* the argument loop of kill: signal, list_signals, pids and job_specs
RECURSIVE KillScan(_, _)
KillScan(as, st) ==
    IF Len(as) = 0 THEN st
    ELSE LET a == Head(as)
         IN  IF a \in {"-l", "--list"}
             THEN KillScan(Tail(as), [st EXCEPT !.list_signals = TRUE])
             ELSE IF a = "-s"
             THEN IF Len(as) >= 2
                  THEN KillScan(Tail(Tail(as)), [st EXCEPT !.signal = as[2]])
                  ELSE KillScan(Tail(as), st)
             ELSE IF StartsWith(a, "-") /\ Len(a) > 1
             THEN KillScan(Tail(as), [st EXCEPT !.signal = SliceFrom(a, 1)])
             ELSE IF StartsWith(a, "%")
             THEN KillScan(Tail(as), [st EXCEPT !.job_specs = Append(@, a)])
             ELSE KillScan(Tail(as), [st EXCEPT !.pids = Append(@, a)])

\* the job_id a job specification names in the generated filter
JobSelector(job_spec) ==
    LET job_id == IF StartsWith(job_spec, "%") THEN SliceFrom(job_spec, 1) ELSE job_spec
    IN  IF job_id \in {"%", "+"} THEN "current"
        ELSE IF job_id = "-" THEN "previous"
        ELSE job_id

KillBuiltinConverter_convert(as) ==
    LET st == KillScan(as, [signal |-> "TERM", list_signals |-> FALSE,
                            pids |-> <<>>, job_specs |-> <<>>])
        sig == IF st.signal # "TERM" THEN " --signal " \o st.signal ELSE ""
        jobs == Join([i \in 1..Len(st.job_specs) |->
                         "jobs | where job_id == \"" \o JobSelector(st.job_specs[i])
                             \o "\" | get pid | each { |pid| kill" \o sig \o " $pid }"],
                     "; ")
        pids == IF Len(st.pids) = 1 THEN "kill" \o sig \o " " \o st.pids[1]
                ELSE "[" \o Join(st.pids, " ") \o "] | each { |pid| kill" \o sig \o " $pid }"
    IN  IF Len(as) = 0 THEN Ok("kill")
        ELSE IF st.list_signals
        THEN Ok("# Signal list: HUP INT QUIT ILL TRAP ABRT BUS FPE KILL USR1 SEGV USR2 PIPE ALRM TERM")
        ELSE IF Len(st.pids) = 0 /\ Len(st.job_specs) = 0
        THEN Ok("kill # Usage: kill [-signal] pid...")
        ELSE IF Len(st.pids) = 0 THEN Ok(jobs)
        ELSE IF Len(st.job_specs) = 0 THEN Ok(pids)
        ELSE Ok(jobs \o "; " \o pids)

----------------------------------------------------------------------------
(* Builtin converters: builtin/jobs.rs and builtin/read.rs                 *)

\* the job specifications the arguments of `jobs` name
RECURSIVE JobSpecs(_)
JobSpecs(as) ==
    IF Len(as) = 0 THEN <<>>
    ELSE LET a == Head(as)
         IN  IF a \in {"-l", "-p", "-r", "-s", "-n", "-x"} THEN JobSpecs(Tail(as))
             ELSE IF StartsWith(a, "%") THEN <<a>> \o JobSpecs(Tail(as))
             ELSE IF ParseI32(a).ok THEN <<"%" \o a>> \o JobSpecs(Tail(as))
             ELSE JobSpecs(Tail(as))

JobsBuiltinConverter_convert(as) ==
    LET show_pids == HasArg(as, "-p")
        show_long == HasArg(as, "-l")
        show_running == HasArg(as, "-r")
        show_stopped == HasArg(as, "-s")
        job_specs == JobSpecs(as)
        format == IF show_pids THEN " | get pid"
                  ELSE IF show_long THEN " | select job_id pid command status"
                  ELSE ""
        status == IF show_running /\ ~show_stopped THEN " | where status == \"running\""
                  ELSE IF show_stopped /\ ~show_running
                  THEN " | where status == \"stopped\""
                  ELSE ""
        job_filter == Join([i \in 1..Len(job_specs) |->
                               "job_id == \"" \o JobSelector(job_specs[i]) \o "\""],
                           " or ")
    IN  IF Len(as) = 0 THEN Ok("jobs")
        ELSE Ok("jobs" \o format \o status
                    \o (IF Len(job_specs) > 0 THEN " | where (" \o job_filter \o ")"
                        ELSE ""))

U64_MAX_TEXT == "18446744073709551615"

\* digit strings of equal length compared as numbers
RECURSIVE DigitsLeq(_, _)
DigitsLeq(a, b) ==
    IF Len(a) = 0 THEN TRUE
    ELSE IF DigitVal(CharAt(a, 0)) # DigitVal(CharAt(b, 0))
    THEN DigitVal(CharAt(a, 0)) < DigitVal(CharAt(b, 0))
    ELSE DigitsLeq(SliceFrom(a, 1), SliceFrom(b, 1))

\* str::parse::<u64> followed by Display: the decimal text of the value
ParseU64(s) ==
    LET body == IF StartsWith(s, "+") THEN SliceFrom(s, 1) ELSE s
        digits == TrimMatchesStart(body, "0")
        all_digits == \A i \in 0..(Len(body) - 1) : IsDigit(CharAt(body, i))
    IN  IF Len(body) = 0 \/ ~all_digits THEN [ok |-> FALSE, text |-> ""]
        ELSE IF Len(digits) = 0 THEN [ok |-> TRUE, text |-> "0"]
        ELSE IF Len(digits) > Len(U64_MAX_TEXT) THEN [ok |-> FALSE, text |-> ""]
        ELSE IF Len(digits) = Len(U64_MAX_TEXT) /\ ~DigitsLeq(digits, U64_MAX_TEXT)
        THEN [ok |-> FALSE, text |-> ""]
        ELSE [ok |-> TRUE, text |-> digits]

\* the argument loop of read
RECURSIVE ReadScan(_, _)
ReadScan(as, st) ==
    IF Len(as) = 0 THEN st
    ELSE LET a == Head(as)
             rest2 == IF Len(as) >= 2 THEN Tail(Tail(as)) ELSE Tail(as)
         IN  IF a = "-s" THEN ReadScan(Tail(as), [st EXCEPT !.silent = TRUE])
             ELSE IF a = "-p"
             THEN ReadScan(rest2, IF Len(as) >= 2 THEN [st EXCEPT !.prompt = as[2]] ELSE st)
             ELSE IF a = "-t"
             THEN ReadScan(rest2, IF Len(as) >= 2
                                  THEN [st EXCEPT !.timeout = ParseU64(as[2])] ELSE st)
             ELSE IF a = "-d"
             THEN ReadScan(rest2, IF Len(as) >= 2
                                  THEN [st EXCEPT !.delimiter = as[2]] ELSE st)
             ELSE IF a = "-r" THEN ReadScan(Tail(as), st)
             ELSE IF a \in {"-n", "-u"} THEN ReadScan(rest2, st)
             ELSE IF ~StartsWith(a, "-")
             THEN ReadScan(Tail(as), [st EXCEPT !.variable_names = Append(@, a)])
             ELSE ReadScan(Tail(as), st)

ReadBuiltinConverter_convert(as) ==
    LET Q(a) == BaseBuiltinConverter_quote_arg(a)
        st == ReadScan(as, [silent |-> FALSE, prompt |-> "",
                            timeout |-> [ok |-> FALSE, text |-> ""],
                            delimiter |-> "\n", variable_names |-> <<>>])
        vs == st.variable_names
        assign == IF Len(vs) = 0 THEN ""
                  ELSE IF Len(vs) = 1 THEN " | $env." \o vs[1] \o " = $in"
                  ELSE " | split words | "
                           \o Join([i \in 1..Len(vs) |->
                                       "$env." \o vs[i] \o " = ($in | get "
                                           \o IntToStr(i - 1) \o " | default \"\")"],
                                   "; ")
    IN  IF Len(as) = 0 THEN Ok("input")
        ELSE Ok((IF Len(st.prompt) > 0 THEN "print " \o Q(st.prompt) \o "; " ELSE "")
                    \o (IF st.silent THEN "input -s" ELSE "input")
                    \o (IF st.timeout.ok THEN " # timeout: " \o st.timeout.text \o "s"
                        ELSE "")
                    \o (IF st.delimiter # "\n"
                        THEN " # delimiter: " \o Q(st.delimiter) ELSE "")
                    \o assign)

----------------------------------------------------------------------------
(* Builtin registry: builtin/mod.rs                                        *)

\* the builtin_name of each registered converter, in registration order
BuiltinNames == <<"cd", "exit", "false", "jobs", "kill", "pwd", "read", "test", "true">>

\* BuiltinRegistry::find_converter: position of the first match, 0 for None
BuiltinRegistry_find_converter(builtin) ==
    IF \E i \in 1..Len(BuiltinNames) : BuiltinNames[i] = builtin
    THEN CHOOSE i \in 1..Len(BuiltinNames) :
            /\ BuiltinNames[i] = builtin
            /\ \A j \in 1..(i - 1) : BuiltinNames[j] # builtin
    ELSE 0

\* the convert method of the converter registered at position i
BuiltinConverter_convert(i, as) ==
    CASE BuiltinNames[i] = "cd" -> CdBuiltinConverter_convert(as)
      [] BuiltinNames[i] = "exit" -> ExitBuiltinConverter_convert(as)
      [] BuiltinNames[i] = "false" -> FalseBuiltinConverter_convert(as)
      [] BuiltinNames[i] = "jobs" -> JobsBuiltinConverter_convert(as)
      [] BuiltinNames[i] = "kill" -> KillBuiltinConverter_convert(as)
      [] BuiltinNames[i] = "pwd" -> PwdBuiltinConverter_convert(as)
      [] BuiltinNames[i] = "read" -> ReadBuiltinConverter_convert(as)
      [] BuiltinNames[i] = "test" -> TestBuiltinConverter_convert(as)
      [] BuiltinNames[i] = "true" -> TrueBuiltinConverter_convert(as)

\* a registry without the alias: `[` is looked up under its own name
BuiltinAlias_NoAlias(n) == n

\* the name convert_builtin looks up: `[` stands for `test`
BuiltinAlias(n) == IF n = "[" THEN "test" ELSE n

\* BuiltinRegistry::convert_builtin
convert_builtin(n, as) ==
    LET found == BuiltinRegistry_find_converter(BuiltinAlias(n))
    IN  IF found # 0 THEN BuiltinConverter_convert(found, as)
        ELSE IF Len(as) = 0 THEN Ok(n)
        ELSE Ok(n \o " " \o BaseBuiltinConverter_format_args(as))

----------------------------------------------------------------------------
(* External-utility converters: sus/echo.rs and sus/wc.rs                  *)

EchoConverter_convert(as) ==
    LET Kept(a) == a \notin {"-n", "-e", "-E"}
        filtered_args == SelectSeq(as, Kept)
    IN  IF Len(as) = 0 \/ Len(filtered_args) = 0 THEN Ok("print")
        ELSE Ok("print " \o BaseConverter_quote_arg(Join(filtered_args, " ")))

WcConverter_convert(as) ==
    LET Q(a) == BaseConverter_quote_arg(a)
        HasAny(S) == \E i \in 1..Len(as) : as[i] \in S
        any_flag_specified ==
            HasAny({"-l", "--lines", "-w", "--words", "-c", "--bytes", "-m", "--chars",
                    "-L", "--max-line-length"})
        count_lines == HasAny({"-l", "--lines"}) \/ ~any_flag_specified
        count_words == HasAny({"-w", "--words"}) \/ ~any_flag_specified
        count_chars == HasAny({"-m", "--chars"}) \/ ~any_flag_specified
        count_bytes == HasAny({"-c", "--bytes"})
        IsFile(a) == ~StartsWith(a, "-")
        files == SelectSeq(as, IsFile)
        operations ==
            (IF count_lines THEN <<"lines | length">> ELSE <<>>)
                \o (IF count_words THEN <<"split words | length">> ELSE <<>>)
                \o (IF count_chars THEN <<"str length">> ELSE <<>>)
                \o (IF count_bytes THEN <<"str length">> ELSE <<>>)
        lines_and_words ==
            "lines | {lines: length, words: ($it | str join ' ' | split words | length)}"
        from_stdin ==
            IF Len(operations) = 1 THEN operations[1]
            ELSE IF Len(operations) = 2 /\ count_lines /\ count_words THEN lines_and_words
            ELSE "wc # multiple counts: " \o Join(operations, ", ")
        PerFile(file) ==
            IF Len(operations) = 1 THEN "open --raw " \o Q(file) \o " | " \o operations[1]
            ELSE "open --raw " \o Q(file) \o " | wc"
    IN  IF Len(as) = 0 THEN Ok("wc")
        ELSE IF Len(files) = 0 THEN Ok(from_stdin)
        ELSE IF Len(files) = 1 THEN
            IF files[1] = "-" THEN
                IF Len(operations) = 1 THEN Ok(operations[1])
                ELSE Ok("wc # multiple counts: " \o Join(operations, ", "))
            ELSE IF Len(operations) = 1 THEN Ok(PerFile(files[1]))
            ELSE IF Len(operations) = 2 /\ count_lines /\ count_words
            THEN Ok("open --raw " \o Q(files[1]) \o " | " \o lines_and_words)
            ELSE Ok("open --raw " \o Q(files[1]) \o " | wc # multiple counts")
        ELSE Ok(Join([i \in 1..Len(files) |-> PerFile(files[i])], "; "))

\* RmConverter::convert
RmConverter_convert(as) ==
    LET HasAny(S) == \E i \in 1..Len(as) : as[i] \in S
        recursive == HasAny({"-r", "-R", "--recursive"})
        force == HasAny({"-f", "--force"})
        interactive == HasAny({"-i", "--interactive"})
        verbose == HasAny({"-v", "--verbose"})
        trash == HasAny({"-t", "--trash"})
        IsFile(a) == ~StartsWith(a, "-")
        files == SelectSeq(as, IsFile)
        flags == (IF recursive THEN " -r" ELSE "")
                     \o (IF force THEN " --force" ELSE "")
                     \o (IF interactive THEN " --interactive" ELSE "")
                     \o (IF verbose THEN " --verbose" ELSE "")
                     \o (IF trash THEN " --trash" ELSE "")
    IN  IF Len(as) = 0 \/ Len(files) = 0 THEN Ok("rm")
        ELSE Ok("rm" \o flags
                    \o Concat([i \in 1..Len(files) |-> " " \o BaseConverter_quote_arg(files[i])]))

----------------------------------------------------------------------------
(* The sed converter: sus/sed.rs                                           *)

\* usize values are kept as their decimal text, as ParseU64 returns it
Canonical(t) == IF Len(TrimMatchesStart(t, "0")) = 0 THEN "0" ELSE TrimMatchesStart(t, "0")

RECURSIVE DecSubRaw(_, _, _)
DecSubRaw(a, b, borrow) ==
    IF Len(a) = 0 THEN ""
    ELSE LET da == DigitVal(CharAt(a, Len(a) - 1))
             db == IF Len(b) > 0 THEN DigitVal(CharAt(b, Len(b) - 1)) ELSE 0
             v == da - db - borrow
         IN  DecSubRaw(Slice(a, 0, Len(a) - 1),
                       IF Len(b) > 0 THEN Slice(b, 0, Len(b) - 1) ELSE "",
                       IF v < 0 THEN 1 ELSE 0)
                 \o Digits[((v + 10) % 10) + 1]

\* a < b
DecLt(a, b) == Len(a) < Len(b) \/ (Len(a) = Len(b) /\ ~DigitsLeq(b, a))

\* usize::saturating_sub
SaturatingSub(a, b) == IF DecLt(a, b) THEN "0" ELSE Canonical(DecSubRaw(a, b, 0))

\* a + 1
RECURSIVE DecSucc(_)
DecSucc(a) ==
    IF Len(a) = 0 THEN "1"
    ELSE LET d == DigitVal(CharAt(a, Len(a) - 1))
             init == Slice(a, 0, Len(a) - 1)
         IN  IF d = 9 THEN DecSucc(init) \o "0" ELSE init \o Digits[d + 2]

SedCommandLetters ==
    {"s", "d", "p", "q", "n", "N", "h", "H", "g", "G", "x", "l", "=",
     "a", "i", "c", "r", "w", "y", "b", "t", "T"}

NoSedCommand == [some |-> FALSE, address |-> "", command |-> "", arguments |-> ""]

\* parse_single_sed_command: the address is everything before the first command letter
parse_single_sed_command(command_str) ==
    LET trimmed == Trim(command_str)
        IsCommand(i) == CharAt(trimmed, i) \in SedCommandLetters
        found == \E i \in 0..(Len(trimmed) - 1) : IsCommand(i)
        at == CHOOSE i \in 0..(Len(trimmed) - 1) :
                  IsCommand(i) /\ \A j \in 0..(i - 1) : ~IsCommand(j)
    IN  IF Len(trimmed) = 0 \/ ~found THEN NoSedCommand
        ELSE [some |-> TRUE,
              address |-> Trim(Slice(trimmed, 0, at)),
              command |-> CharAt(trimmed, at),
              arguments |-> Trim(SliceFrom(trimmed, at + 1))]

\* the commands parse_sed_script pushes for the text current_command
SedPush(current_command) ==
    IF Len(Trim(current_command)) > 0 /\ parse_single_sed_command(Trim(current_command)).some
    THEN <<parse_single_sed_command(Trim(current_command))>>
    ELSE <<>>

\* the character loop of parse_sed_script
RECURSIVE SedScriptScan(_, _, _)
SedScriptScan(script_text, current_command, brace_depth) ==
    IF Len(script_text) = 0 THEN SedPush(current_command)
    ELSE LET ch == CharAt(script_text, 0)
             rest == SliceFrom(script_text, 1)
         IN  IF ch = ";" /\ brace_depth = 0
             THEN SedPush(current_command) \o SedScriptScan(rest, "", brace_depth)
             ELSE SedScriptScan(rest, current_command \o ch,
                                CASE ch = "{" -> brace_depth + 1
                                  [] ch = "}" -> brace_depth - 1
                                  [] OTHER -> brace_depth)

parse_sed_script(script_text) == SedScriptScan(script_text, "", 0)

\* parse_substitute_command: delimiter, pattern, replacement, flags
parse_substitute_command(arguments) ==
    LET parts == Split(SliceFrom(arguments, 1), CharAt(arguments, 0))
        flags == IF Len(parts) > 2 THEN parts[3] ELSE ""
    IN  IF Len(arguments) = 0 \/ Len(parts) < 2
        THEN [some |-> FALSE, pattern |-> "", replacement |-> "",
              global |-> FALSE, print |-> FALSE]
        ELSE [some |-> TRUE, pattern |-> parts[1], replacement |-> parts[2],
              global |-> Contains(flags, "g"), print |-> Contains(flags, "p")]

\* parse_transliterate_command
parse_transliterate_command(arguments) ==
    LET parts == Split(SliceFrom(arguments, 1), CharAt(arguments, 0))
    IN  IF Len(arguments) = 0 \/ Len(parts) < 2
        THEN [some |-> FALSE, from |-> "", to |-> ""]
        ELSE [some |-> TRUE, from |-> parts[1], to |-> parts[2]]

\* the line selection convert_sed_command_to_nu emits for an address
SedAddress(address) ==
    LET Q(a) == BaseConverter_quote_arg(a)
        parts == Split(address, ",")
        start == IF ParseU64(parts[1]).ok THEN SaturatingSub(ParseU64(parts[1]).text, "1")
                 ELSE "0"
        end == ParseU64(parts[2]).text
        count == SaturatingSub(end, DecSucc(start))
    IN  IF Len(address) = 0 THEN Ok("")
        ELSE IF address = "$" THEN Ok(" | last")
        ELSE IF ParseU64(address).ok THEN
            IF ParseU64(address).text # "0"
            THEN Ok(" | nth " \o SaturatingSub(ParseU64(address).text, "1"))
            ELSE Ok("")
        ELSE IF Contains(address, ",") THEN
            IF Len(parts) # 2 THEN Ok("")
            ELSE IF parts[2] = "$" THEN Ok(" | skip " \o start)
            ELSE IF ParseU64(parts[2]).ok
            THEN Ok(" | skip " \o start \o " | first " \o DecSucc(count))
            ELSE Ok("")
        ELSE IF StartsWith(address, "/") /\ EndsWith(address, "/") THEN
            IF ~SliceOk(address, 1, Len(address) - 1) THEN PanicResult
            ELSE Ok(" | where $it =~ " \o Q(Slice(address, 1, Len(address) - 1)))
        ELSE Ok(" # address: " \o address)

\* the operation convert_sed_command_to_nu emits for a command letter
SedOperation(command) ==
    LET Q(a) == BaseConverter_quote_arg(a)
        c == command.command
        arguments == command.arguments
        subst == parse_substitute_command(arguments)
        trans == parse_transliterate_command(arguments)
    IN  CASE c = "s" ->
                IF subst.some
                THEN " | each { |line| $line | str replace " \o Q(subst.pattern) \o " "
                         \o Q(subst.replacement) \o " }"
                         \o (IF subst.global THEN " # global replacement" ELSE "")
                ELSE " # substitute: " \o arguments
          [] c = "d" -> " | where false"
          [] c = "p" -> " | each { |line| print $line; $line }"
          [] c = "q" ->
                " | first" \o (IF Len(arguments) > 0 /\ ParseU64(arguments).ok
                               THEN " " \o ParseU64(arguments).text ELSE "")
          [] c = "n" -> " | skip 1"
          [] c = "N" -> " | window 2 | each { |pair| $pair | str join \"\\n\" }"
          [] c = "h" -> " # hold space operation"
          [] c = "H" -> " # hold space append operation"
          [] c = "g" -> " # get from hold space"
          [] c = "G" -> " # get append from hold space"
          [] c = "x" -> " # exchange with hold space"
          [] c = "l" -> " | each { |line| $line | debug }"
          [] c = "=" -> " | enumerate | each { |item| print $item.index; $item.item }"
          [] c = "a" -> " | each { |line| [$line " \o Q(arguments) \o "] | str join \"\\n\" }"
          [] c = "i" -> " | each { |line| [" \o Q(arguments) \o " $line] | str join \"\\n\" }"
          [] c = "c" -> " | each { |line| " \o Q(arguments) \o " }"
          [] c = "r" ->
                " | each { |line| [$line (open " \o Q(arguments) \o ")] | str join \"\\n\" }"
          [] c = "w" -> " | tee { save " \o Q(arguments) \o " }"
          [] c = "y" ->
                IF trans.some
                THEN " | each { |line| $line | str replace --all " \o Q(trans.from) \o " "
                         \o Q(trans.to) \o " }"
                ELSE " # transliterate: " \o arguments
          [] c = "b" -> " # branch: " \o arguments
          [] c = "t" -> " # test: " \o arguments
          [] c = "T" -> " # test not: " \o arguments
          [] OTHER -> " # unknown command: " \o c

convert_sed_command_to_nu(command) ==
    Built(<<SedAddress(command.address)>>,
          SedAddress(command.address).text \o SedOperation(command))

\* the option state SedConverter::convert starts its argument loop with
SedOptions0 ==
    [script |-> "", files |-> <<>>, in_place |-> FALSE, quiet |-> FALSE,
     separate_files |-> FALSE, backup_suffix |-> ""]

\* the `while i < args.len()` loop of SedConverter::convert, from index i (1-based)
RECURSIVE SedArgScan(_, _, _)
SedArgScan(as, i, o) ==
    IF i > Len(as) THEN o
    ELSE LET a == as[i] IN
        CASE a \in {"-e", "--expression"} ->
                IF i + 1 <= Len(as)
                THEN SedArgScan(as, i + 2,
                        [o EXCEPT !.script = (IF Len(o.script) # 0 THEN o.script \o ";" ELSE "")
                                                 \o as[i + 1]])
                ELSE SedArgScan(as, i + 1, o)
          [] a \in {"-f", "--file"} ->
                IF i + 1 <= Len(as)
                THEN SedArgScan(as, i + 2,
                        [o EXCEPT !.script = o.script \o "# script from file: " \o as[i + 1]])
                ELSE SedArgScan(as, i + 1, o)
          [] a \in {"-i", "--in-place"} -> SedArgScan(as, i + 1, [o EXCEPT !.in_place = TRUE])
          [] a \in {"-n", "--quiet", "--silent"} ->
                SedArgScan(as, i + 1, [o EXCEPT !.quiet = TRUE])
          [] a \in {"-r", "-E", "--regexp-extended"} -> SedArgScan(as, i + 1, o)
          [] a \in {"-s", "--separate"} ->
                SedArgScan(as, i + 1, [o EXCEPT !.separate_files = TRUE])
          [] a \in {"-l", "--line-length"} ->
                IF i + 1 <= Len(as) THEN SedArgScan(as, i + 2, o) ELSE SedArgScan(as, i + 1, o)
          [] OTHER ->
                IF StartsWith(a, "-i")
                THEN SedArgScan(as, i + 1,
                        [o EXCEPT !.in_place = TRUE, !.backup_suffix = SliceFrom(a, 2)])
                ELSE IF ~StartsWith(a, "-")
                THEN IF Len(o.script) = 0
                     THEN SedArgScan(as, i + 1, [o EXCEPT !.script = a])
                     ELSE SedArgScan(as, i + 1, [o EXCEPT !.files = Append(o.files, a)])
                ELSE SedArgScan(as, i + 1, o)

\* the input source SedConverter::convert starts its pipeline with
SedSource(o) ==
    LET Q(a) == BaseConverter_quote_arg(a)
        file_list == Join([i \in 1..Len(o.files) |-> Q(o.files[i])], " ")
    IN  IF Len(o.files) = 0 THEN "lines"
        ELSE IF Len(o.files) = 1 THEN "open " \o Q(o.files[1]) \o " | lines"
        ELSE IF o.separate_files
        THEN "ls " \o file_list \o " | each { |file| open $file.name | lines }"
        ELSE "[" \o file_list \o "] | each { |file| open $file | lines } | flatten"

\* the quiet and in-place endings of SedConverter::convert
SedTail(o) ==
    LET Q(a) == BaseConverter_quote_arg(a)
    IN  (IF o.quiet THEN " # quiet mode - only explicit prints" ELSE "")
        \o (IF ~o.in_place THEN ""
            ELSE IF Len(o.files) # 0
            THEN " | save"
                 \o (IF Len(o.backup_suffix) # 0 THEN " --backup " \o Q(o.backup_suffix) ELSE "")
                 \o " " \o Q(o.files[1])
            ELSE " # in-place editing requires file input")

\* SedConverter::convert
SedConverter_convert(as) ==
    LET o == SedArgScan(as, 1, SedOptions0)
        commands == parse_sed_script(o.script)
        ops == [i \in 1..Len(commands) |-> convert_sed_command_to_nu(commands[i])]
    IN  IF Len(as) = 0 \/ Len(o.script) = 0 THEN Ok("sed")
        ELSE Built(ops, SedSource(o)
                        \o Concat([i \in 1..Len(ops) |-> ops[i].text])
                        \o SedTail(o))

----------------------------------------------------------------------------
(* External-utility converters: sus/head.rs, sus/cat.rs and sus/grep.rs    *)

\* the argument loop of head: the line count, the files, the verbose flag
\* and the text returned from inside the loop by -c
RECURSIVE HeadScan(_, _, _)
HeadScan(as, i, st) ==
    IF i >= Len(as) THEN st
    ELSE LET a == as[i + 1]
             Count(t) == IF ParseI32(t).ok THEN ParseI32(t).val ELSE 10
             dashed_number ==
                 /\ StartsWith(a, "-")
                 /\ Len(a) > 1
                 /\ \A k \in 1..(Len(a) - 1) : IsDigit(CharAt(a, k))
         IN  IF a \in {"-n", "--lines"} THEN
                 IF i + 1 < Len(as)
                 THEN HeadScan(as, i + 2, [st EXCEPT !.line_count = Count(as[i + 2])])
                 ELSE HeadScan(as, i + 1, st)
             ELSE IF a \in {"-q", "--quiet", "--silent"} THEN HeadScan(as, i + 1, st)
             ELSE IF a \in {"-v", "--verbose"}
             THEN HeadScan(as, i + 1, [st EXCEPT !.verbose = TRUE])
             ELSE IF a \in {"-c", "--bytes"} THEN
                 IF i + 1 < Len(as)
                 THEN [st EXCEPT !.returned = TRUE,
                                 !.text = "first " \o IntToStr(Count(as[i + 2])) \o " bytes"]
                 ELSE HeadScan(as, i + 1, st)
             ELSE IF dashed_number
             THEN HeadScan(as, i + 1, [st EXCEPT !.line_count = Count(SliceFrom(a, 1))])
             ELSE IF StartsWith(a, "-") THEN HeadScan(as, i + 1, st)
             ELSE HeadScan(as, i + 1, [st EXCEPT !.files = Append(@, a)])

HeadConverter_convert(as) ==
    LET Q(a) == BaseConverter_quote_arg(a)
        st == HeadScan(as, 0, [line_count |-> 10, files |-> <<>>, verbose |-> FALSE,
                               returned |-> FALSE, text |-> ""])
        n == IntToStr(st.line_count)
        files == st.files
        Opened(file) ==
            IF file = "-" THEN "first " \o n
            ELSE "open " \o Q(file) \o " | lines | first " \o n
        PerFile(file) == "print \"==> " \o Q(file) \o " <==\"; " \o Opened(file)
    IN  IF Len(as) = 0 THEN Ok("first 10")
        ELSE IF st.returned THEN Ok(st.text)
        ELSE IF Len(files) = 0 THEN Ok("first " \o n)
        ELSE IF Len(files) = 1 THEN Ok(Opened(files[1]))
        ELSE Ok(Join([k \in 1..Len(files) |-> PerFile(files[k])], "; "))

CatConverter_convert(as) ==
    LET Q(a) == BaseConverter_quote_arg(a)
        HasAny(S) == \E i \in 1..Len(as) : as[i] \in S
        show_ends == HasAny({"-A", "--show-all", "-E", "--show-ends"})
        show_tabs == HasAny({"-A", "--show-all", "-T", "--show-tabs"})
        show_nonprinting == HasAny({"-A", "--show-all", "-v", "--show-nonprinting"})
        number_lines == HasAny({"-n", "--number"})
        number_nonblank == HasAny({"-b", "--number-nonblank"})
        squeeze_blank == HasAny({"-s", "--squeeze-blank"})
        IsFile(a) == ~StartsWith(a, "-")
        files == SelectSeq(as, IsFile)
        Opened(f) == IF f = "-" THEN "input" ELSE "(open --raw " \o Q(f) \o ")"
        opened ==
            IF Len(files) = 0 THEN "input"
            ELSE IF Len(files) = 1 THEN
                IF files[1] = "-" THEN "input" ELSE "open --raw " \o Q(files[1])
            ELSE "[" \o Join([k \in 1..Len(files) |-> Opened(files[k])], ", ")
                     \o "] | str join"
        postprocess ==
            (IF squeeze_blank
             THEN <<"lines | where ($it | str trim | str length) > 0 | str join (char nl)">>
             ELSE <<>>)
            \o (IF number_lines
                THEN <<"lines | enumerate | each { |x| $\"($x.index + 1)  ($x.item)\" } | str join (char nl)">>
                ELSE IF number_nonblank
                THEN <<"lines | enumerate | each { |x| if ($x.item | str trim | str length) > 0 { $\"($x.index + 1)  ($x.item)\" } else { $x.item } } | str join (char nl)">>
                ELSE <<>>)
            \o (IF show_ends THEN <<"str replace --all (char nl) '$'">> ELSE <<>>)
            \o (IF show_tabs THEN <<"str replace --all (char tab) '^I'">> ELSE <<>>)
            \o (IF show_nonprinting THEN <<"# show-nonprinting not fully supported">>
                ELSE <<>>)
    IN  IF Len(as) = 0 THEN Ok("input")
        ELSE IF Len(postprocess) = 0 THEN Ok(opened)
        ELSE Ok(opened \o " | " \o Join(postprocess, " | "))

GrepConverter_convert(as) ==
    LET Q(a) == BaseConverter_quote_arg(a)
        HasAny(S) == \E i \in 1..Len(as) : as[i] \in S
        quiet == HasAny({"-q", "--quiet", "--silent"})
        invert == HasAny({"-v", "--invert-match"})
        ignore_case == HasAny({"-i", "--ignore-case"})
        count == HasAny({"-c", "--count"})
        line_number == HasAny({"-n", "--line-number"})
        fixed_string == HasAny({"-F", "--fixed-strings"})
        word_match == HasAny({"-w", "--word-regexp"})
        only_matching == HasAny({"-o", "--only-matching"})
        IsOperand(a) == ~StartsWith(a, "-")
        operands == SelectSeq(as, IsOperand)
        \* an empty operand leaves the pattern empty, so the next one replaces it
        first == IF \E k \in 1..Len(operands) : operands[k] # ""
                 THEN CHOOSE k \in 1..Len(operands) :
                         /\ operands[k] # ""
                         /\ \A j \in 1..(k - 1) : operands[j] = ""
                 ELSE 0
        pattern == IF first = 0 THEN "" ELSE operands[first]
        files == IF first = 0 THEN <<>> ELSE SubSeq(operands, first + 1, Len(operands))
        matched == IF word_match /\ ~fixed_string THEN "\\b" \o pattern \o "\\b" ELSE pattern
        base_clause == (IF invert THEN "where $it !~ " ELSE "where $it =~ ") \o Q(matched)
        where_clause == IF ignore_case THEN base_clause \o " # case-insensitive"
                        ELSE base_clause
        Filter(source) ==
            IF quiet THEN source \o "lines | " \o where_clause \o " | length | $in > 0"
            ELSE IF count THEN source \o "lines | " \o where_clause \o " | length"
            ELSE IF line_number
            THEN source \o "lines | enumerate | where ($it.item =~ " \o Q(pattern)
                     \o ") | each { |x| $\"($x.index + 1): ($x.item)\" }"
            ELSE IF only_matching
            THEN source \o "lines | " \o where_clause \o " | each { |line| $line | str extract "
                     \o Q(pattern) \o "}"
            ELSE source \o "lines | " \o where_clause
    IN  IF Len(as) = 0 \/ pattern = "" THEN Ok("grep")
        ELSE IF Len(files) = 0 THEN Ok(Filter(""))
        ELSE IF Len(files) = 1 THEN Ok(Filter("open " \o Q(files[1]) \o " | "))
        ELSE Ok("grep " \o BaseConverter_format_args(as))

----------------------------------------------------------------------------
(* External-utility registry: sus/mod.rs                                   *)

\* the command_name of each registered converter, in registration order
CommandNames ==
    <<"basename", "cat", "chmod", "chown", "cp", "cut", "date", "dirname", "echo",
      "find", "grep", "head", "ls", "mkdir", "mv", "realpath", "rm", "rmdir", "sed",
      "seq", "sort", "stat", "tail", "tee", "uniq", "wc">>

\* the registered converters whose convert method this model covers
ModelledCommands == {"cat", "echo", "grep", "head", "rm", "sed", "wc"}

\* CommandRegistry::find_converter: position of the first match, 0 for None
CommandRegistry_find_converter(command) ==
    IF \E i \in 1..Len(CommandNames) : CommandNames[i] = command
    THEN CHOOSE i \in 1..Len(CommandNames) :
            /\ CommandNames[i] = command
            /\ \A j \in 1..(i - 1) : CommandNames[j] # command
    ELSE 0

\* the convert method of the converter registered at position i
CommandConverter_convert(i, as) ==
    CASE CommandNames[i] = "cat" -> CatConverter_convert(as)
      [] CommandNames[i] = "echo" -> EchoConverter_convert(as)
      [] CommandNames[i] = "grep" -> GrepConverter_convert(as)
      [] CommandNames[i] = "head" -> HeadConverter_convert(as)
      [] CommandNames[i] = "rm" -> RmConverter_convert(as)
      [] CommandNames[i] = "sed" -> SedConverter_convert(as)
      [] CommandNames[i] = "wc" -> WcConverter_convert(as)

\* CommandRegistry::convert_command
convert_command_registry(n, as) ==
    LET found == CommandRegistry_find_converter(n)
    IN  IF found # 0 THEN CommandConverter_convert(found, as)
        ELSE IF Len(as) = 0 THEN Ok(n)
        ELSE Ok(n \o " " \o BaseConverter_format_args(as))

----------------------------------------------------------------------------
(* Inputs                                                                  *)

NonEmptySeqs(S, n) == SeqsUpTo(S, n) \ {<<>>}

WordLines(S, n) == {Join(ws, " ") : ws \in NonEmptySeqs(S, n)}

AndOrLines == WordLines({"a", "b", "&&", "||", "|"}, MaxWords)

LoopLines ==
    {kw \o " " \o tail : kw \in {"for", "while", "until"},
                         tail \in WordLines({"in", "do", "done", "x"}, MaxTail)}

ConditionalLines ==
    {kw \o " " \o tail : kw \in {"if", "case"},
                         tail \in WordLines({"then", "fi", "in", "x"}, MaxGroup)}

BracketLines == WordLines({"{", "}", "(", ")", "$((", "))", "x"}, MaxGroup)

SimpleLines == WordLines({"VAR=value", "A=b=c", "-x=1", "echo", "$VAR", "hello"}, MaxGroup)

ScriptTexts ==
    {Join(ls, "\n") : ls \in SeqsUpTo({"", "  ", "# c", "echo hi", "a | b\r"}, MaxLines)}

\* lines of pipes, escaped pipes, redirection words, `!` and a loop opener
OperatorLines == WordLines({"a", "\\|", "|", ">", "2>&1", "!", "while do x"}, MaxGroup)

\* the openers of the keyword and bracket forms
KeywordOpeners == {"if ", "for ", "while ", "until ", "case ", "{ ", "( ", "$(( "}

\* lines that open like a keyword or bracket form and go on with operators
KeywordLines ==
    {kw \o tail : kw \in KeywordOpeners, tail \in WordLines({"x", "|", "&&", "||"}, MaxGroup)}

\* test expressions of up to MaxGroup words
TestExpressions == WordLines({"a", "-f", "=", "-n"}, MaxGroup)

\* each expression written as `[ E ]` and as `test E`
BracketTestLines ==
    {"[ " \o e \o " ]" : e \in TestExpressions} \cup {"test " \o e : e \in TestExpressions}

\* lines written with separators, else and elif clauses, a function
\* definition and a case arm
StructureLines ==
    WordLines({"if x then x", "else x", "elif x then x", "fi", "x ; x &", "f() { x }",
               "case x in x) x ;; esac"}, MaxGroup)

InputTexts == AndOrLines \cup LoopLines \cup ConditionalLines \cup BracketLines
              \cup SimpleLines \cup OperatorLines \cup KeywordLines \cup BracketTestLines
              \cup StructureLines \cup ScriptTexts

\* sed scripts and options: regex addresses with and without command letters
\* in the regex, substitutions with two delimiters and each flag
SedWords ==
    {"/foo/p", "/test/d", "s/o/u/", "s/o/u/g", "s/o/u/p", "s|o|u|p", "-n", "f"}

\* the argument words tried with each command name
ArgWords(n) ==
    CASE n \in {"test", "["} -> {"[", "]", "-f", "!", "=", "-a", "a", "a*"}
      [] n = "kill" -> {"", " ", "-9", "%1", "12", "-l", "-s"}
      [] n = "wc" -> {"-l", "-w", "-L", "-Z", "f", "-"}
      [] n = "echo" -> {"-n", "hello", "world", "a b"}
      [] n = "rm" -> {"-r", "-rf", "-X", "d", "a b", ""}
      [] n = "sed" -> SedWords
      [] n = "head" -> {"-n", "-5", "-c", "f", "a b", "x7"}
      [] n = "cat" -> {"-n", "-A", "f", "g", "a b"}
      [] n = "grep" -> {"-v", "-w", "-c", "p", "f", "a b"}
      [] n = "cut" -> {"-d", ",", "-f", "2", "-2147483648", "x"}
      [] OTHER -> {"", "arg", "-P", "7"}

\* a name no table knows
UnknownName == "unknown_command"

BuiltinCallNames == {BuiltinNames[i] : i \in 1..Len(BuiltinNames)} \cup {"["}

CallNames == BuiltinCallNames \cup ModelledCommands \cup {"cut", UnknownName}

QuoteArgs ==
    {Concat(cs) : cs \in SeqsUpTo({"a", " ", "\"", "'", "$", "*", "?", "\\"}, MaxArgLen)}

Helpers == {"dispatcher", "builtin", "sus"}

QuoteWith(h, a) ==
    CASE h = "dispatcher" -> PosixToNuConverter_quote_arg(a)
      [] h = "builtin" -> BaseBuiltinConverter_quote_arg(a)
      [] h = "sus" -> BaseConverter_quote_arg(a)

NoScript == [type |-> "None"]

RedirectionOps ==
    {"Input", "Output", "Append", "InputOutput", "Clobber", "InputHereDoc",
     "InputHereString", "OutputDup", "InputDup"}

SampleRedirections ==
    {Redirection(fd, o, "out.txt") :
        fd \in {None, Some(0), Some(1), Some(2), Some(7), Some(-1)}, o \in RedirectionOps}

\* simple commands, the degenerate ones included
SampleSimples ==
    {EmptySimple,
     Simple("echo", <<"hi">>, <<>>, <<>>),
     Simple("echo", <<"hi">>, <<Assignment("A", "1"), Assignment("B", "x y")>>, <<>>),
     Simple("", <<>>, <<Assignment("A", "1")>>, <<>>),
     Simple("cut", <<"-d", ",", "-f", "2">>, <<>>, <<>>),
     Simple("cut", <<"-d", ",", "-f", "-2147483648">>, <<>>, <<>>)}
        \cup {Simple("ls", <<>>, <<>>, <<r>>) : r \in SampleRedirections}
        \cup {Simple("", <<>>, <<>>, <<r, r>>) : r \in SampleRedirections}

\* the commands sample bodies are built from
BodyCommands ==
    {EmptySimple,
     Simple("echo", <<"hi">>, <<>>, <<>>),
     Simple("true", <<>>, <<>>, <<>>)}

SampleBodies == SeqsUpTo(BodyCommands, MaxLines)

ShortBodies == SeqsUpTo(BodyCommands, 1)

SampleKinds ==
    {[kind |-> "BraceGroup", body |-> b] : b \in SampleBodies}
        \cup {[kind |-> "Subshell", body |-> b] : b \in SampleBodies}
        \cup {[kind |-> "For", variable |-> "i", words |-> w, body |-> b] :
                 w \in {<<>>, <<"a">>, <<"a b", "c">>}, b \in ShortBodies}
        \cup {[kind |-> k, condition |-> c, body |-> b] :
                 k \in {"While", "Until"}, c \in ShortBodies, b \in ShortBodies}
        \cup {[kind |-> "If", condition |-> c, then_body |-> b, elif_parts |-> e,
               else_body |-> el] :
                 c \in ShortBodies, b \in ShortBodies,
                 e \in {<<>>} \cup {<<[condition |-> c2, body |-> c2]>> : c2 \in ShortBodies},
                 el \in {[some |-> FALSE, body |-> <<>>]}
                           \cup {[some |-> TRUE, body |-> b2] : b2 \in ShortBodies}}
        \cup {[kind |-> "Case", word |-> "$x", items |-> it] :
                 it \in {<<>>} \cup {<<[patterns |-> ps, body |-> b]>> :
                           ps \in {<<>>, <<"a">>, <<"a", "b c">>}, b \in ShortBodies}}
        \cup {[kind |-> "Function", name |-> "f", body |-> b] : b \in ShortBodies}
        \cup {[kind |-> "Arithmetic", expression |-> e] : e \in {"", "1 + 2"}}

SampleCommands ==
    SampleSimples
        \cup {Pipeline(b, neg) : b \in SampleBodies, neg \in BOOLEAN}
        \cup {List(b, sep) : b \in SampleBodies, sep \in {"Sequential", "Background"}}
        \cup {AndOr(l, o, r) : l \in BodyCommands, o \in {"And", "Or"}, r \in BodyCommands}
        \cup {Compound(k, <<>>) : k \in SampleKinds}
        \cup {Compound([kind |-> "Subshell", body |-> <<>>], <<r>>) :
                 r \in SampleRedirections}

\* the scripts handed to convert directly: none, one, or two commands
SampleScripts ==
    {PosixScript(<<>>)}
        \cup {PosixScript(<<c>>) : c \in SampleCommands}
        \cup {PosixScript(<<c, d>>) : c \in BodyCommands, d \in BodyCommands}

----------------------------------------------------------------------------
(* The host's calls                                                        *)

\* the converter tables as BuiltinRegistry::new and CommandRegistry::new fill them
StartupRegistry == [builtins |-> BuiltinNames, commands |-> CommandNames]

\* the independent callers that share the registries
Callers == {1, 2}

NoCall == [pc |-> "idle", kind |-> "none", input |-> "", script |-> NoScript,
           name |-> "", args |-> <<>>, found |-> 0, result |-> NoResult]

\* no recursion pending, the registries as built, no caller active; the
\* build's overflow setting matters only where callers compare results, every
\* other run takes both outcomes of an overflow
Quiet ==
    /\ stack = <<>>
    /\ registry = StartupRegistry
    /\ calls = [c \in Callers |-> NoCall]
    /\ overflow_checks = TRUE

Init ==
    \/ /\ pc = "text"
       /\ input \in InputTexts
       /\ script = NoScript /\ name = "" /\ args = <<>> /\ arg = "" /\ helper = "none"
       /\ result = NoResult
       /\ Quiet
    \/ /\ pc = "script"
       /\ script \in SampleScripts
       /\ input = "" /\ name = "" /\ args = <<>> /\ arg = "" /\ helper = "none"
       /\ result = NoResult
       /\ Quiet
    \/ /\ pc = "call"
       /\ name \in CallNames
       /\ \E k \in 0..MaxArgs : args \in [1..k -> ArgWords(name)]
       /\ input = "" /\ script = NoScript /\ arg = "" /\ helper = "none"
       /\ result = NoResult
       /\ Quiet
    \/ /\ pc = "arg"
       /\ arg \in QuoteArgs
       /\ helper \in Helpers
       /\ input = "" /\ script = NoScript /\ name = "" /\ args = <<>>
       /\ result = NoResult
       /\ Quiet

\* parse_posix_script(input)
Parse ==
    /\ pc = "text"
    /\ script' = parse_posix_script(input)
    /\ pc' = "parsed"
    /\ UNCHANGED <<overflow_checks, stack, registry, calls, input, name, args, arg, helper, result>>

\* PosixToNuConverter::convert(script), on a parsed or a given script
Convert ==
    /\ pc \in {"parsed", "script"}
    /\ ~IsPanic(script)
    /\ result' \in Outcomes(convert(script))
    /\ pc' = "converted"
    /\ UNCHANGED <<overflow_checks, stack, registry, calls, input, script, name, args, arg, helper>>

\* BuiltinRegistry::convert_builtin(name, args)
ConvertBuiltin ==
    /\ pc = "call"
    /\ name \in BuiltinCallNames \cup {UnknownName}
    /\ result' \in Outcomes(convert_builtin(name, args))
    /\ pc' = "builtin_done"
    /\ UNCHANGED <<overflow_checks, stack, registry, calls, input, script, name, args, arg, helper>>

\* CommandRegistry::convert_command(name, args)
ConvertCommand ==
    /\ pc = "call"
    /\ name \in ModelledCommands \cup {UnknownName}
    /\ result' \in Outcomes(convert_command_registry(name, args))
    /\ pc' = "command_done"
    /\ UNCHANGED <<overflow_checks, stack, registry, calls, input, script, name, args, arg, helper>>

\* PosixToNuConverter::convert_simple_command on the command (name, args)
ConvertSimple ==
    /\ pc = "call"
    /\ result' \in Outcomes(convert_simple_command(Simple(name, args, <<>>, <<>>)))
    /\ pc' = "simple_done"
    /\ UNCHANGED <<overflow_checks, stack, registry, calls, input, script, name, args, arg, helper>>

\* quote_arg(arg) of the chosen helper
QuoteArg ==
    /\ pc = "arg"
    /\ result' = Ok(QuoteWith(helper, arg))
    /\ pc' = "quoted"
    /\ UNCHANGED <<overflow_checks, stack, registry, calls, input, script, name, args, arg, helper>>

\* the same helper applied to the literal it just produced
Requote ==
    /\ pc = "quoted"
    /\ arg' = result.text
    /\ result' = Ok(QuoteWith(helper, result.text))
    /\ pc' = "requoted"
    /\ UNCHANGED <<overflow_checks, stack, registry, calls, input, script, name, args, helper>>

Next ==
    \/ Parse
    \/ Convert
    \/ ConvertBuiltin
    \/ ConvertCommand
    \/ ConvertSimple
    \/ QuoteArg
    \/ Requote

Spec == Init /\ [][Next]_vars

----------------------------------------------------------------------------
(* The recursive functions call by call: every call of                     *)
(* parse_heuristic_command, convert_command and convert_test_command is a  *)
(* frame on the stack, every iteration of the -a / -o loop a step.         *)

LineFrame(s) == [k |-> "line", s |-> s]

NodeFrame(c) == [k |-> "node", c |-> c]

TestFrame(as) == [k |-> "test", as |-> as]

ScanFrame(as, i) == [k |-> "scan", as |-> as, i |-> i]

LineFrames(ls) == [i \in 1..Len(ls) |-> LineFrame(ls[i])]

NodeFrames(cs) == [i \in 1..Len(cs) |-> NodeFrame(cs[i])]

\* the strings parse_heuristic_command(command_str) hands to its own calls,
\* in call order, or the panic of a slice made before them
DirectCalls(command_str) ==
    LET Calling(ls) == [panic |-> FALSE, lines |-> ls]
        Panicking == [panic |-> TRUE, lines |-> <<>>]
        in_pos == Find(command_str, " in ")
        do_pos == Find(command_str, " do ")
        case_in == Find(command_str, " in")
        n == Len(command_str)
        body_after_do ==
            StripSuffixOr(SliceFrom(command_str, do_pos + 4), " done",
                          SliceFrom(command_str, do_pos + 4))
        segments == Split(command_str, "|")
        sp == AndOrSplit(command_str)
        condition_and_body == SplitN2(command_str, " then ")
    IN
    IF Len(SplitWhitespace(command_str)) = 0 THEN Calling(<<>>)
    ELSE IF Contains(command_str, "|") /\ ~Contains(command_str, "||") THEN
        Calling([i \in 1..Len(segments) |-> Trim(segments[i])])
    ELSE IF Contains(command_str, "&&") \/ Contains(command_str, "||") THEN
        Calling(<<Trim(sp.parts[1]), Trim(IF Len(sp.parts) >= 2 THEN sp.parts[2] ELSE "")>>)
    ELSE IF StartsWith(command_str, "if ") /\ Len(condition_and_body) = 2 THEN
        Calling(<<StripPrefixOr(condition_and_body[1], "if ", ""),
                  StripSuffixOr(condition_and_body[2], " fi", condition_and_body[2])>>)
    ELSE IF StartsWith(command_str, "for ") /\ in_pos # -1 /\ do_pos # -1 THEN
        IF ~SliceOk(command_str, 4, in_pos) \/ ~SliceOk(command_str, in_pos + 4, do_pos)
        THEN Panicking
        ELSE Calling(<<body_after_do>>)
    ELSE IF (StartsWith(command_str, "while ") \/ StartsWith(command_str, "until "))
             /\ do_pos # -1 THEN
        IF ~SliceOk(command_str, 6, do_pos) THEN Panicking
        ELSE Calling(<<Trim(Slice(command_str, 6, do_pos)), body_after_do>>)
    ELSE IF StartsWith(command_str, "case ") /\ case_in # -1 THEN
        IF ~SliceOk(command_str, 5, case_in) THEN Panicking ELSE Calling(<<>>)
    ELSE IF \/ StartsWith(command_str, "{ ") /\ EndsWith(command_str, " }")
            \/ StartsWith(command_str, "( ") /\ EndsWith(command_str, " )") THEN
        IF ~SliceOk(command_str, 2, n - 2) THEN Panicking
        ELSE Calling(<<Slice(command_str, 2, n - 2)>>)
    ELSE IF StartsWith(command_str, "$(( ") /\ EndsWith(command_str, " ))") THEN
        IF ~SliceOk(command_str, 4, n - 3) THEN Panicking ELSE Calling(<<>>)
    ELSE Calling(<<>>)

\* what convert_test_command(as) calls or loops over
TestCalls(as) ==
    IF Len(as) = 4 THEN
        IF as[1] = "[" /\ as[4] = "]" THEN <<TestFrame(SubSeq(as, 2, 3))>> ELSE <<>>
    ELSE IF Len(as) >= 5 THEN
        IF as[1] = "[" /\ as[Len(as)] = "]"
        THEN <<TestFrame(SubSeq(as, 2, Len(as) - 1))>>
        ELSE <<ScanFrame(as, 0)>>
    ELSE <<>>

\* a loop that converts the rest of the arguments at each operator
ScanCalls_RestOfArguments(as, i) ==
    IF i >= Len(as) THEN <<>>
    ELSE IF i + 2 < Len(as) /\ as[i + 2] \in {"-a", "&&", "-o", "||"}
    THEN <<TestFrame(SubSeq(as, i + 1, Len(as))), ScanFrame(as, i + 2)>>
    ELSE <<ScanFrame(as, i + 1)>>

\* one iteration of the -a / -o loop at index i (0-based)
ScanCalls(as, i) ==
    IF i >= Len(as) THEN <<>>
    ELSE IF i + 2 < Len(as) /\ as[i + 2] \in {"-a", "&&", "-o", "||"}
    THEN <<TestFrame(<<as[i + 1]>>), ScanFrame(as, i + 2)>>
    ELSE <<ScanFrame(as, i + 1)>>

\* what convert_command(c) calls
NodeCalls(c) ==
    IF c.type = "Simple"
    THEN IF c.name \in {"test", "["} THEN <<TestFrame(c.args)>> ELSE <<>>
    ELSE NodeFrames(Children(c))

\* lines of a `test` command with brackets and the two logical operators
TestLines == {"test " \o l : l \in WordLines({"a", "-a", "-o", "[", "]"}, MaxTail)}

StepTexts ==
    OperatorLines \cup BracketLines \cup LoopLines \cup ConditionalLines \cup TestLines
        \cup ScriptTexts

InitSteps ==
    /\ pc = "waiting"
    /\ input = "" /\ stack = <<>>
    /\ script = NoScript /\ name = "" /\ args = <<>> /\ arg = "" /\ helper = "none"
    /\ result = NoResult
    /\ registry = StartupRegistry
    /\ calls = [c \in Callers |-> NoCall]
    /\ overflow_checks = TRUE

\* parse_posix_script is called with a text: one call per command line is due
ParseStart ==
    /\ pc = "waiting"
    /\ input' \in StepTexts
    /\ stack' = LineFrames(CommandLines(Lines(input')))
    /\ pc' = "parsing"
    /\ UNCHANGED <<script, name, args, arg, helper, result, registry, calls, overflow_checks>>

\* one call of parse_heuristic_command
ParseCall ==
    /\ pc = "parsing"
    /\ stack # <<>>
    /\ Head(stack).k = "line"
    /\ IF DirectCalls(Head(stack).s).panic
       THEN pc' = "panicked" /\ stack' = <<>>
       ELSE pc' = pc /\ stack' = LineFrames(DirectCalls(Head(stack).s).lines) \o Tail(stack)
    /\ UNCHANGED <<input, script, name, args, arg, helper, result, registry, calls, overflow_checks>>

\* parse_posix_script returns and PosixToNuConverter::convert starts
ParseReturn ==
    /\ pc = "parsing"
    /\ stack = <<>>
    /\ ~IsPanic(parse_posix_script(input))
    /\ script' = parse_posix_script(input)
    /\ stack' = NodeFrames(script'.commands)
    /\ pc' = "converting"
    /\ UNCHANGED <<input, name, args, arg, helper, result, registry, calls, overflow_checks>>

\* one call of convert_command
ConvertCall ==
    /\ pc = "converting"
    /\ stack # <<>>
    /\ Head(stack).k = "node"
    /\ stack' = NodeCalls(Head(stack).c) \o Tail(stack)
    /\ UNCHANGED <<pc, input, script, name, args, arg, helper, result, registry, calls, overflow_checks>>

\* one call of convert_test_command
TestCall ==
    /\ pc = "converting"
    /\ stack # <<>>
    /\ Head(stack).k = "test"
    /\ stack' = TestCalls(Head(stack).as) \o Tail(stack)
    /\ UNCHANGED <<pc, input, script, name, args, arg, helper, result, registry, calls, overflow_checks>>

\* one iteration of the `while i < args.len()` loop of convert_test_command
ScanStep ==
    /\ pc = "converting"
    /\ stack # <<>>
    /\ Head(stack).k = "scan"
    /\ stack' = ScanCalls(Head(stack).as, Head(stack).i) \o Tail(stack)
    /\ UNCHANGED <<pc, input, script, name, args, arg, helper, result, registry, calls, overflow_checks>>

\* PosixToNuConverter::convert returns
ConvertReturn ==
    /\ pc = "converting"
    /\ stack = <<>>
    /\ result' \in Outcomes(convert(script))
    /\ pc' = "returned"
    /\ UNCHANGED <<input, script, name, args, arg, helper, stack, registry, calls, overflow_checks>>

\* the steps of a run that has started
RunSteps ==
    \/ ParseCall
    \/ ParseReturn
    \/ ConvertCall
    \/ TestCall
    \/ ScanStep
    \/ ConvertReturn

NextSteps ==
    \/ ParseStart
    \/ RunSteps

SpecSteps == InitSteps /\ [][NextSteps]_vars

----------------------------------------------------------------------------
(* Independent callers sharing the registries built at startup: each       *)
(* invocation runs in two steps, and the steps of the callers interleave.  *)

\* an invocation: a script parsed and converted, or a call on a registry
ScriptCall(text) == [kind |-> "script", input |-> text, name |-> "", args |-> <<>>]

RegistryCall(k, n, as) == [kind |-> k, input |-> "", name |-> n, args |-> as]

SharedInvocations ==
    {ScriptCall(t) : t \in {"echo hi", "a | b\n[ a ]", "while do x",
                            "cut -d , -f -2147483648", "cut -d , -f 2"}}
    \cup {RegistryCall("builtin", "[", <<"a", "]">>),
          RegistryCall("builtin", "kill", <<"-9", "12">>),
          RegistryCall("builtin", UnknownName, <<"arg">>),
          RegistryCall("command", "cat", <<"f">>),
          RegistryCall("command", "echo", <<"a b">>),
          RegistryCall("command", "echo", <<>>),
          RegistryCall("command", UnknownName, <<"arg">>)}

\* what this build makes of a result
Resolve(r) ==
    IF r.kind = "Overflow" THEN (IF overflow_checks THEN PanicResult ELSE Ok(r.text))
    ELSE r

\* find_converter on a table as it is at the time of the call
FindIn(table, n) ==
    IF \E i \in 1..Len(table) : table[i] = n
    THEN CHOOSE i \in 1..Len(table) :
            /\ table[i] = n
            /\ \A j \in 1..(i - 1) : table[j] # n
    ELSE 0

\* a registry whose lookup hands the converter out instead of lending it
RegistryAfterConvert_TakesConverter(reg, k, n) ==
    LET Other(x) == x # n
    IN  IF k = "command" THEN [reg EXCEPT !.commands = SelectSeq(@, Other)]
        ELSE [reg EXCEPT !.builtins = SelectSeq(@, Other)]

\* the registry after convert_command / convert_builtin: both take &self and
\* find_converter lends a reference, so the tables are as they were
RegistryAfterConvert(reg, k, n) == reg

\* what the invocation returns when it is the only one running
Alone(call) ==
    Resolve(CASE call.kind = "script" ->
                    IF IsPanic(parse_posix_script(call.input)) THEN PanicResult
                    ELSE convert(parse_posix_script(call.input))
              [] call.kind = "builtin" -> convert_builtin(call.name, call.args)
              [] call.kind = "command" -> convert_command_registry(call.name, call.args))

InitShared ==
    /\ pc = "shared"
    /\ input = "" /\ stack = <<>>
    /\ script = NoScript /\ name = "" /\ args = <<>> /\ arg = "" /\ helper = "none"
    /\ result = NoResult
    /\ registry = StartupRegistry
    /\ calls = [c \in Callers |-> NoCall]
    /\ overflow_checks \in BOOLEAN

SharedUnchanged == UNCHANGED <<pc, input, script, name, args, arg, helper, result, stack,
                               overflow_checks>>

\* caller c starts an invocation
Invoke(c) ==
    /\ calls[c].pc \in {"idle", "returned"}
    /\ \E v \in SharedInvocations :
          calls' = [calls EXCEPT ![c] = [NoCall EXCEPT !.pc = "invoked", !.kind = v.kind,
                                                       !.input = v.input, !.name = v.name,
                                                       !.args = v.args]]
    /\ UNCHANGED registry
    /\ SharedUnchanged

\* parse_posix_script(input) of caller c; a panic ends the invocation
SharedParse(c) ==
    /\ calls[c].pc = "invoked" /\ calls[c].kind = "script"
    /\ LET parsed == parse_posix_script(calls[c].input)
       IN  calls' = [calls EXCEPT ![c].script = parsed,
                                  ![c].pc = IF IsPanic(parsed) THEN "done" ELSE "parsed",
                                  ![c].result = IF IsPanic(parsed) THEN PanicResult
                                                ELSE NoResult]
    /\ UNCHANGED registry
    /\ SharedUnchanged

\* PosixToNuConverter::convert on the script caller c parsed
SharedConvert(c) ==
    /\ calls[c].pc = "parsed"
    /\ calls' = [calls EXCEPT ![c].result = Resolve(convert(calls[c].script)),
                              ![c].pc = "done"]
    /\ UNCHANGED registry
    /\ SharedUnchanged

\* find_converter of caller c's registry call, on the shared table
SharedFind(c) ==
    /\ calls[c].pc = "invoked" /\ calls[c].kind \in {"builtin", "command"}
    /\ LET table == IF calls[c].kind = "command" THEN registry.commands
                    ELSE registry.builtins
           looked == IF calls[c].kind = "command" THEN calls[c].name
                     ELSE BuiltinAlias(calls[c].name)
       IN  calls' = [calls EXCEPT ![c].found = FindIn(table, looked), ![c].pc = "found"]
    /\ registry' = RegistryAfterConvert(registry, calls[c].kind, calls[c].name)
    /\ SharedUnchanged

\* the convert method of the converter found, or the fallback text
SharedRun(c) ==
    /\ calls[c].pc = "found"
    /\ LET n == calls[c].name
           as == calls[c].args
           r == IF calls[c].kind = "command" THEN
                    IF calls[c].found # 0 THEN CommandConverter_convert(calls[c].found, as)
                    ELSE IF Len(as) = 0 THEN Ok(n)
                    ELSE Ok(n \o " " \o BaseConverter_format_args(as))
                ELSE
                    IF calls[c].found # 0 THEN BuiltinConverter_convert(calls[c].found, as)
                    ELSE IF Len(as) = 0 THEN Ok(n)
                    ELSE Ok(n \o " " \o BaseBuiltinConverter_format_args(as))
       IN  calls' = [calls EXCEPT ![c].result = Resolve(r), ![c].pc = "done"]
    /\ UNCHANGED registry
    /\ SharedUnchanged

\* caller c holds the value returned and is free to invoke again
SharedReturn(c) ==
    /\ calls[c].pc = "done"
    /\ calls' = [calls EXCEPT ![c].pc = "returned"]
    /\ UNCHANGED registry
    /\ SharedUnchanged

NextShared ==
    \E c \in Callers :
        \/ Invoke(c)
        \/ SharedParse(c)
        \/ SharedConvert(c)
        \/ SharedFind(c)
        \/ SharedRun(c)
        \/ SharedReturn(c)

SpecShared == InitShared /\ [][NextShared]_vars

----------------------------------------------------------------------------
(* Claims                                                                  *)

\* C1: parse never panics and always returns a Script, whatever the text:
\* once parse_posix_script has run, its result is a Script.
C1_ParseReturnsScript == pc = "parsed" => script.type = "Script"


\* C2: for every name registered in the builtin table or the external-utility
\* table and every argument vector, the registry's convert returns Ok(text):
\* no converter fails and none panics.
C2_RegistryConvertReturnsOk ==
    /\ (pc = "builtin_done" /\ \E i \in 1..Len(BuiltinNames) : BuiltinNames[i] = name)
           => result.kind = "Ok"
    /\ (pc = "command_done" /\ \E i \in 1..Len(CommandNames) : CommandNames[i] = name)
           => result.kind = "Ok"

\* C3: convert returns Ok(text) without panicking for every Script, the
\* degenerate ones included; the Simple command with an empty name and no
\* arguments converts to an empty statement.
C3_ConvertReturnsOk ==
    pc = "converted" =>
        /\ result.kind = "Ok"
        /\ script = PosixScript(<<EmptySimple>>) => result.text = ""

\* C4: the dispatcher's conversion of a Simple command named `test` with
\* arguments A is exactly what the builtin table's `test` converter returns
\* for A.
C4_TestResolvesViaBuiltinTable ==
    (pc = "simple_done" /\ name = "test") =>
        result \in Outcomes(convert_builtin(name, args))

\* C5: for a name registered in the external-utility table and not in the
\* builtin table, the dispatcher's conversion of the Simple command (name, A)
\* is exactly what the external-utility registry's convert returns for (name, A).
C5_ExternalTableLookup ==
    (pc = "simple_done" /\ name \in ModelledCommands
        /\ BuiltinRegistry_find_converter(name) = 0) =>
        result \in Outcomes(convert_command_registry(name, args))

\* C6: each of the three quote helpers wraps the argument in double quotes,
\* escaping its double quotes, if and only if it contains a space, a double
\* quote, a single quote or `$` (the table helpers also on `*` or `?`), and
\* returns it unchanged otherwise.
C6_OneQuotingRule ==
    pc = "quoted" =>
        LET special ==
                \/ Contains(arg, " ") \/ Contains(arg, "\"")
                \/ Contains(arg, "'") \/ Contains(arg, "$")
                \/ /\ helper \in {"builtin", "sus"}
                   /\ Contains(arg, "*") \/ Contains(arg, "?")
        IN  result.text = IF special THEN Quoted(arg) ELSE arg

\* C7: for every registered builtin or utility name and every argument
\* vector, the text the registry's convert returns is non-empty and has no
\* leading or trailing whitespace.
C7_RegistryTextTrimmedNonEmpty ==
    (/\ \/ pc = "builtin_done" /\ \E i \in 1..Len(BuiltinNames) : BuiltinNames[i] = name
        \/ pc = "command_done" /\ \E i \in 1..Len(CommandNames) : CommandNames[i] = name
     /\ result.kind = "Ok") =>
        /\ Len(result.text) > 0
        /\ Trim(result.text) = result.text

\* C8: converting `[` with arguments A gives exactly the result of converting
\* `test` with A, through the builtin registry's convert and through the
\* dispatcher.
C8_AliasEquivalence ==
    /\ (pc = "builtin_done" /\ name = "[") =>
           result \in Outcomes(convert_builtin("test", args))
    /\ (pc = "simple_done" /\ name = "[") =>
           result \in Outcomes(convert_simple_command(Simple("test", args, <<>>, <<>>)))

\* C8 witness: the registry has converted `[ -f a` as it converts `test -f a`
C8_Witness ==
    /\ pc = "builtin_done"
    /\ name = "["
    /\ args = <<"-f", "a">>
    /\ result = Ok("(a | path exists)")

\* C9: quoting is idempotent: a helper applied to the literal it produced
\* returns that literal unchanged.
C9_QuotingIdempotent == pc = "requoted" => result.text = arg

\* C10: a line the pipeline rule does not apply to and which contains `&&`
\* or `||` is split at the leftmost operator occurrence of either kind: the
\* operator is that one, left is the parse of the text before it and right
\* the parse of the text after it.
C10_SplitsAtLeftmostOperator ==
    (pc = "parsed" /\ ~IsPanic(script)) =>
        LET ls == CommandLines(Lines(input))
        IN  \A i \in 1..Len(ls) :
                LET line == ls[i]
                    a == Find(line, "&&")
                    o == Find(line, "||")
                    at == IF a = -1 THEN o ELSE IF o = -1 THEN a ELSE Min(a, o)
                IN  (~(Contains(line, "|") /\ ~Contains(line, "||")) /\ at # -1) =>
                        script.commands[i] =
                            AndOr(parse_heuristic_command(Trim(Slice(line, 0, at))),
                                  IF at = a THEN "And" ELSE "Or",
                                  parse_heuristic_command(Trim(SliceFrom(line, at + 2))))

\* C10, as the code has it: such a line is split at the leftmost `&&` when it
\* contains `&&` (And), and at the leftmost `||` only when it contains no `&&`
\* (Or); left is the parse of the text before the split and right the parse
\* of the text after it.
C10_SplitsAtFirstAndElseFirstOr ==
    (pc = "parsed" /\ ~IsPanic(script)) =>
        LET ls == CommandLines(Lines(input))
        IN  \A i \in 1..Len(ls) :
                LET line == ls[i]
                    a == Find(line, "&&")
                    o == Find(line, "||")
                    at == IF a # -1 THEN a ELSE o
                IN  (~(Contains(line, "|") /\ ~Contains(line, "||")) /\ at # -1) =>
                        script.commands[i] =
                            AndOr(parse_heuristic_command(Trim(Slice(line, 0, at))),
                                  IF a # -1 THEN "And" ELSE "Or",
                                  parse_heuristic_command(Trim(SliceFrom(line, at + 2))))

\* C10 witness: `a || b && a` has been split at its `&&`, the `||` left inside
C10_Witness ==
    /\ pc = "parsed"
    /\ input = "a || b && a"
    /\ script.type = "Script"
    /\ script.commands[1].type = "AndOr"
    /\ script.commands[1].operator = "And"
    /\ script.commands[1].left.type = "AndOr"
    /\ script.commands[1].left.operator = "Or"

\* the word groups of a token sequence, cut at every `&&` and `||` token
RECURSIVE ChainOperands(_, _)
ChainOperands(tokens, current) ==
    IF Len(tokens) = 0 THEN <<current>>
    ELSE IF Head(tokens) \in {"&&", "||"}
    THEN <<current>> \o ChainOperands(Tail(tokens), <<>>)
    ELSE ChainOperands(Tail(tokens), Append(current, Head(tokens)))

\* the number of AndOr nodes of a tree of AndOr and Simple nodes
RECURSIVE AndOrCount(_)
AndOrCount(c) ==
    IF c.type = "AndOr" THEN 1 + AndOrCount(c.left) + AndOrCount(c.right) ELSE 0

\* the leaves of a tree of AndOr nodes, left to right
RECURSIVE AndOrLeaves(_)
AndOrLeaves(c) ==
    IF c.type = "AndOr" THEN AndOrLeaves(c.left) \o AndOrLeaves(c.right) ELSE <<c>>

\* C11: a line `c1 OP c2 OP ... OP cn` (n >= 3, each OP `&&` or `||`, each ci
\* a plain simple command) parses to nested AndOr pairs with exactly n-1
\* AndOr nodes and exactly the n Simple commands c1..cn as leaves in source
\* order.
C11_ChainsFullyNested ==
    pc = "parsed" =>
        LET tokens == SplitWhitespace(input)
            operands == ChainOperands(tokens, <<>>)
            n == Len(operands)
            plain == /\ \A i \in 1..n : Len(operands[i]) > 0
                     /\ \A i \in 1..Len(tokens) : ~Contains(tokens[i], "|") \/ tokens[i] = "||"
                     /\ Len(Lines(input)) = 1
        IN  (input \in AndOrLines /\ n >= 3 /\ plain) =>
                /\ script.type = "Script"
                /\ Len(script.commands) = 1
                /\ AndOrCount(script.commands[1]) = n - 1
                /\ AndOrLeaves(script.commands[1]) =
                       [i \in 1..n |-> Simple(operands[i][1], Tail(operands[i]), <<>>, <<>>)]

\* C11 witness: `a && b || a` has become And(a, Or(b, a))
C11_Witness ==
    /\ pc = "parsed"
    /\ input = "a && b || a"
    /\ script = PosixScript(<<AndOr(Simple("a", <<>>, <<>>, <<>>), "And",
                                    AndOr(Simple("b", <<>>, <<>>, <<>>), "Or",
                                          Simple("a", <<>>, <<>>, <<>>)))>>)

\* C12: an external-utility converter given a flag it does not model returns
\* the utility name followed by all the original arguments, quoted and in
\* their original order: nothing is discarded, nothing partially translated.
C12_UnmodelledFlagPassthrough ==
    (pc = "command_done" /\ name \in {"rm", "wc"}) =>
        LET modelled ==
                IF name = "rm"
                THEN {"-r", "-R", "--recursive", "-f", "--force", "-i", "--interactive",
                      "-v", "--verbose", "-t", "--trash", "-d", "--dir",
                      "--preserve-root", "--no-preserve-root"}
                ELSE {"-l", "--lines", "-w", "--words", "-c", "--bytes", "-m", "--chars",
                      "-L", "--max-line-length"}
            unmodelled ==
                \E i \in 1..Len(args) :
                    StartsWith(args[i], "-") /\ Len(args[i]) > 1 /\ args[i] \notin modelled
        IN  unmodelled => result = Ok(name \o " " \o BaseConverter_format_args(args))

\* C13: for a duplication redirection (`>&` or `<&`) the dispatcher emits a
\* stdout redirect when fd = 1, a stderr redirect when fd = 2, and for any
\* other fd a comment marker naming the fd and the target; the redirection
\* always contributes non-empty text.
C13_DupRedirectionByFd ==
    (/\ pc = "converted"
     /\ \E r \in SampleRedirections :
            /\ script = PosixScript(<<Simple("ls", <<>>, <<>>, <<r>>)>>)
            /\ r.operator \in {"OutputDup", "InputDup"}
            /\ r.fd.some) =>
        LET r == script.commands[1].redirections[1]
        IN  /\ result.kind = "Ok"
            /\ Len(result.text) > Len("ls")
            /\ CASE r.fd.val = 1 -> result.text = "ls out> " \o r.target
                 [] r.fd.val = 2 -> result.text = "ls err> " \o r.target
                 [] OTHER -> /\ StartsWith(result.text, "ls # ")
                             /\ Contains(result.text, "fd " \o IntToStr(r.fd.val) \o " ")
                             /\ EndsWith(result.text, r.target)

\* C13, as the code has it: `>&` gives `out>` for fd 1, `err>` for fd 2 and a
\* comment marker naming fd and target for any other fd; `<&` gives the
\* comment marker for every fd, 1 and 2 included; without an fd `>&` gives
\* `out>` and `<&` gives `<`. The redirection always contributes non-empty
\* text.
C13_DupRedirectionByOperatorAndFd ==
    (/\ pc = "converted"
     /\ \E r \in SampleRedirections :
            /\ script = PosixScript(<<Simple("ls", <<>>, <<>>, <<r>>)>>)
            /\ r.operator \in {"OutputDup", "InputDup"}) =>
        LET r == script.commands[1].redirections[1]
            marker == /\ StartsWith(result.text, "ls # ")
                      /\ Contains(result.text, "fd " \o IntToStr(r.fd.val) \o " ")
                      /\ EndsWith(result.text, r.target)
        IN  /\ result.kind = "Ok"
            /\ Len(result.text) > Len("ls")
            /\ CASE ~r.fd.some /\ r.operator = "OutputDup" ->
                        result.text = "ls out> " \o r.target
                 [] ~r.fd.some /\ r.operator = "InputDup" ->
                        result.text = "ls < " \o r.target
                 [] r.fd.some /\ r.operator = "InputDup" -> marker
                 [] r.fd.some /\ r.operator = "OutputDup" /\ r.fd.val = 1 ->
                        result.text = "ls out> " \o r.target
                 [] r.fd.some /\ r.operator = "OutputDup" /\ r.fd.val = 2 ->
                        result.text = "ls err> " \o r.target
                 [] OTHER -> marker

\* C13 witness: `ls 1<&out.txt` has been converted to a comment marker
C13_Witness ==
    /\ pc = "converted"
    /\ script = PosixScript(<<Simple("ls", <<>>, <<>>,
                                     <<Redirection(Some(1), "InputDup", "out.txt")>>)>>)
    /\ result = Ok("ls # TODO: input dup fd 1 from out.txt")

\* the statements `<sigil>NAME = "VALUE"; ` of the assignments asg, in order
RECURSIVE AssignmentStatements(_, _)
AssignmentStatements(asg, sigil) ==
    IF Len(asg) = 0 THEN ""
    ELSE sigil \o Head(asg).name \o " = \"" \o Head(asg).value \o "\"; "
             \o AssignmentStatements(Tail(asg), sigil)

\* C14: for a Simple command with assignments (n1,v1) ... (nk,vk) the output
\* begins with `n1 = "v1"; ` ... `nk = "vk"; ` in assignment order, each name
\* written as parsed with no added prefix, immediately followed by the
\* converted command.
C14_AssignmentsPrependedBare ==
    (/\ pc = "converted"
     /\ Len(script.commands) = 1
     /\ script.commands[1].type = "Simple"
     /\ Len(script.commands[1].assignments) > 0) =>
        LET cmd == script.commands[1]
            rest == convert_simple_command(
                        Simple(cmd.name, cmd.args, <<>>, cmd.redirections))
        IN  result \in {Built(<<r>>, AssignmentStatements(cmd.assignments, "") \o r.text) :
                           r \in Outcomes(rest)}

\* C14, as the code has it: the output begins with `$n1 = "v1"; ` ...
\* `$nk = "vk"; ` in assignment order, each name prefixed with `$` and each
\* value copied between the quotes as it is, immediately followed by the
\* converted command.
C14_AssignmentsPrependedWithDollar ==
    (/\ pc = "converted"
     /\ Len(script.commands) = 1
     /\ script.commands[1].type = "Simple"
     /\ Len(script.commands[1].assignments) > 0) =>
        LET cmd == script.commands[1]
            rest == convert_simple_command(
                        Simple(cmd.name, cmd.args, <<>>, cmd.redirections))
        IN  result \in {Built(<<r>>, AssignmentStatements(cmd.assignments, "$") \o r.text) :
                           r \in Outcomes(rest)}

\* C14 witness: `A=1 B="x y" echo hi` has been converted
C14_Witness ==
    /\ pc = "converted"
    /\ script = PosixScript(<<Simple("echo", <<"hi">>,
                                     <<Assignment("A", "1"), Assignment("B", "x y")>>,
                                     <<>>)>>)
    /\ result = Ok("$A = \"1\"; $B = \"x y\"; print hi")

\* C15: converting a List whose separator is Background renders every
\* member, the last one and the only one of a one-element list included,
\* followed by ` &`: as many ` &` markers as members.
C15_BackgroundMarksEveryMember ==
    (/\ pc = "converted"
     /\ Len(script.commands) = 1
     /\ script.commands[1].type = "List"
     /\ script.commands[1].separator = "Background"
     /\ result.kind = "Ok") =>
        LET members == ConvertAll(script.commands[1].commands)
        IN  result.text = Concat([i \in 1..Len(members) |-> members[i].text \o " &"])

\* a sed script of the form /REGEX/C: C a command letter, REGEX without `/` and `;`
IsRegexCommand(w) ==
    /\ Len(w) >= 4
    /\ CharAt(w, 0) = "/"
    /\ CharAt(w, Len(w) - 2) = "/"
    /\ CharAt(w, Len(w) - 1) \in SedCommandLetters
    /\ ~Contains(Slice(w, 1, Len(w) - 2), "/")
    /\ ~Contains(Slice(w, 1, Len(w) - 2), ";")

\* C16: for a sed script /REGEX/C the converter takes /REGEX/ as the address
\* and C as the command: the output contains the selection
\* ` | where $it =~ REGEX` followed by the operation for C, whatever letters
\* REGEX contains.
C16_RegexAddressThenCommand ==
    (pc = "command_done" /\ name = "sed" /\ Len(args) = 1 /\ IsRegexCommand(args[1])) =>
        LET w == args[1]
            REGEX == Slice(w, 1, Len(w) - 2)
            C == [some |-> TRUE, address |-> "", command |-> CharAt(w, Len(w) - 1),
                  arguments |-> ""]
        IN  /\ result.kind = "Ok"
            /\ Contains(result.text, " | where $it =~ " \o REGEX \o SedOperation(C))

\* a substitution sDpDrDf with the single flag f
IsFlaggedSubstitute(w, f) ==
    /\ Len(w) >= 5
    /\ CharAt(w, 0) = "s"
    /\ Len(Split(SliceFrom(w, 2), CharAt(w, 1))) = 3
    /\ Split(SliceFrom(w, 2), CharAt(w, 1))[3] = f

\* C17: whatever delimiter follows `s`, the output for sDpDrDg differs from
\* the output for sDpDrD, and so does the output for sDpDrDp.
C17_SubstituteFlagsHonoured ==
    (pc = "command_done" /\ name = "sed" /\ Len(args) = 1
        /\ (IsFlaggedSubstitute(args[1], "g") \/ IsFlaggedSubstitute(args[1], "p"))) =>
        result # SedConverter_convert(<<Slice(args[1], 0, Len(args[1]) - 1)>>)

\* the offsets of the `|` characters of a line that no backslash precedes
UnescapedPipes(line) ==
    {i \in 0..(Len(line) - 1) :
        CharAt(line, i) = "|" /\ (i = 0 \/ CharAt(line, i - 1) # "\\")}

\* C18: only an unescaped `|` separates pipeline stages: a line whose every
\* `|` follows a backslash is not parsed as a Pipeline, and a line without
\* `||` has one stage more than it has unescaped `|`.
C18_EscapedPipeIsNoSeparator ==
    (pc = "parsed" /\ input \in OperatorLines /\ Contains(input, "|")
        /\ ~Contains(input, "||") /\ script.type = "Script") =>
        /\ Len(script.commands) = 1
        /\ UnescapedPipes(input) = {} => script.commands[1].type # "Pipeline"
        /\ UnescapedPipes(input) # {} =>
              /\ script.commands[1].type = "Pipeline"
              /\ Len(script.commands[1].commands) = Cardinality(UnescapedPipes(input)) + 1

\* the number of `|` characters of a line
PipeCount(line) == Cardinality({i \in 0..(Len(line) - 1) : CharAt(line, i) = "|"})

\* C19: a line that contains `|` and no `||` parses to a Pipeline of the
\* parses of its `|`-separated segments in source order, one more command
\* than the line has `|` characters; no Pipeline in any parse is empty.
C19_PipelineOfSegments ==
    (pc = "parsed" /\ input \in AndOrLines \cup OperatorLines) =>
        /\ (Contains(input, "|") /\ ~Contains(input, "||")) =>
              /\ script.type = "Script"
              /\ Len(script.commands) = 1
              /\ script.commands[1] =
                    Pipeline([i \in 1..(PipeCount(input) + 1) |->
                                 parse_heuristic_command(Trim(Split(input, "|")[i]))],
                             FALSE)
        /\ script.type = "Script" =>
              \A i \in 1..Len(ScriptNodes(script)) :
                  ScriptNodes(script)[i].type = "Pipeline" =>
                      Len(ScriptNodes(script)[i].commands) >= 1

\* C19 apart from the lines on which the parser panics
C19_PipelineOfSegmentsUnlessPanic ==
    (pc = "parsed" /\ script.type = "Script") => C19_PipelineOfSegments

\* C20: in every AST parse returns, every Simple and Compound node has no
\* redirections and every Pipeline has negated = false; on a line of plain
\* words, `>`, `2>&1` and `!` are the name or the arguments of the Simple
\* command like any other word.
C20_NoRedirectionsNoNegation ==
    (pc = "parsed" /\ script.type = "Script") =>
        /\ \A i \in 1..Len(ScriptNodes(script)) :
              LET node == ScriptNodes(script)[i]
              IN  /\ node.type \in {"Simple", "Compound"} => node.redirections = <<>>
                  /\ node.type = "Pipeline" => node.negated = FALSE
        /\ (input \in OperatorLines /\ ~Contains(input, "|")
                /\ ~StartsWith(input, "while ")) =>
              script = PosixScript(<<Simple(Head(SplitWhitespace(input)),
                                            Tail(SplitWhitespace(input)), <<>>, <<>>)>>)

\* C20 witness: `! a 2>&1` has become one Simple command named `!`
C20_Witness ==
    /\ pc = "parsed"
    /\ input = "! a 2>&1"
    /\ script = PosixScript(<<Simple("!", <<"a", "2>&1">>, <<>>, <<>>)>>)

\* the lines of a text that hold a command: some character is not whitespace
\* and the first such character is not `#`
RemainingLines(text) ==
    LET FirstInk(l) ==
            IF \E i \in 0..(Len(l) - 1) : ~IsWhitespace(CharAt(l, i))
            THEN CHOOSE i \in 0..(Len(l) - 1) :
                    /\ ~IsWhitespace(CharAt(l, i))
                    /\ \A j \in 0..(i - 1) : IsWhitespace(CharAt(l, j))
            ELSE -1
        Holds(l) == FirstInk(l) # -1 /\ CharAt(l, FirstInk(l)) # "#"
    IN  SelectSeq(Lines(text), Holds)

\* C21: parse returns one Command per line whose trimmed content is non-empty
\* and does not start with `#`, in input order; blank, whitespace-only and
\* comment lines give none, so the Script is as long as the remaining lines.
C21_OneCommandPerRemainingLine ==
    pc = "parsed" =>
        /\ script.type = "Script"
        /\ Len(script.commands) = Len(RemainingLines(input))
        /\ \A i \in 1..Len(RemainingLines(input)) :
              script.commands[i] = parse_heuristic_command(Trim(RemainingLines(input)[i]))

\* C21 apart from the texts on which the parser panics
C21_OneCommandPerRemainingLineUnlessPanic ==
    (pc = "parsed" /\ script.type = "Script") => C21_OneCommandPerRemainingLine

\* the number of leading tokens that contain `=` and do not start with `-`
LeadingAssignments(tokens) ==
    LET Fits(t) == Contains(t, "=") /\ ~StartsWith(t, "-")
    IN  CHOOSE k \in 0..Len(tokens) :
            /\ \A i \in 1..k : Fits(tokens[i])
            /\ k < Len(tokens) => ~Fits(tokens[k + 1])

\* C22: on a line of the simple-command rule the leading tokens that contain
\* `=` and do not start with `-` are the Assignments, cut at their first `=`;
\* the next token is the name and every later token an arg, so assignments,
\* name and args are the line's tokens in source order.
C22_LeadingAssignmentsThenWords ==
    (pc = "parsed" /\ input \in SimpleLines) =>
        LET tokens == SplitWhitespace(input)
            k == LeadingAssignments(tokens)
        IN  script =
                PosixScript(<<Simple(
                    IF k < Len(tokens) THEN tokens[k + 1] ELSE "",
                    SubSeq(tokens, k + 2, Len(tokens)),
                    [i \in 1..k |->
                        Assignment(Slice(tokens[i], 0, Find(tokens[i], "=")),
                                   SliceFrom(tokens[i], Find(tokens[i], "=") + 1))],
                    <<>>)>>)

\* C22 witness: in `VAR=value echo A=b=c` the token after the name is an arg
C22_Witness ==
    /\ pc = "parsed"
    /\ input = "VAR=value echo A=b=c"
    /\ script = PosixScript(<<Simple("echo", <<"A=b=c">>,
                                     <<Assignment("VAR", "value")>>, <<>>)>>)

\* a word the dispatcher's quoting rule leaves as it is
NeedsNoQuoting(w) ==
    ~Contains(w, " ") /\ ~Contains(w, "\"") /\ ~Contains(w, "'") /\ ~Contains(w, "$")

Measure(f) ==
    CASE f.k = "line" -> Len(f.s)
      [] f.k = "test" -> Len(f.as)
      [] f.k = "scan" -> Len(f.as) - f.i
      [] f.k = "node" -> Len(Nodes(f.c))

\* frame f was put on the stack by the call or iteration g and is smaller:
\* a loop entered by a call, and a test reached from an AST node, start afresh
Shrinks(f, g) ==
    CASE f.k = g.k -> Measure(f) < Measure(g)
      [] f.k = "test" /\ g.k = "scan" -> Len(f.as) < Len(g.as)
      [] f.k = "scan" /\ g.k = "test" -> f.as = g.as /\ f.i = 0
      [] f.k = "test" /\ g.k = "node" -> TRUE
      [] OTHER -> FALSE

\* an upper bound on the steps a pending call can still cause: its children
\* are disjoint pieces of its line, of its arguments or of its subtree
RECURSIVE NodeRank(_)
NodeRank(c) ==
    LET RECURSIVE Sum(_)
        Sum(cs) == IF Len(cs) = 0 THEN 0 ELSE NodeRank(Head(cs)) + Sum(Tail(cs))
    IN  IF c.type = "Simple"
        THEN 1 + (IF c.name \in {"test", "["} THEN 3 * Len(c.args) + 2 ELSE 0)
        ELSE 1 + Sum(Children(c))

Rank(f) ==
    CASE f.k = "line" -> 2 * Len(f.s) + 1
      [] f.k = "test" -> 3 * Len(f.as) + 2
      [] f.k = "scan" -> 3 * (Len(f.as) - f.i) + 1
      [] f.k = "node" -> NodeRank(f.c)

RECURSIVE StackRank(_)
StackRank(st) == IF Len(st) = 0 THEN 0 ELSE Rank(Head(st)) + StackRank(Tail(st))

\* the calls and iterations a pending call or iteration causes next
Callees(f) ==
    CASE f.k = "line" -> LineFrames(DirectCalls(f.s).lines)
      [] f.k = "test" -> TestCalls(f.as)
      [] f.k = "scan" -> ScanCalls(f.as, f.i)
      [] f.k = "node" -> NodeCalls(f.c)

\* C24: parse followed by convert terminates for every input: every call the
\* line parser makes to itself is on a strictly shorter string, every
\* recursion of the dispatcher and of the test conversion shrinks its
\* argument, every loop iteration advances its index, so that every step
\* lowers a natural-number bound on the steps that remain, and a parse
\* whose calls have all returned has a Script to convert.
C24_EveryCallShrinksAndRunEnds ==
    /\ (pc \in {"parsing", "converting"} /\ stack # <<>>) =>
          /\ \A i \in 1..Len(Callees(Head(stack))) :
                Shrinks(Callees(Head(stack))[i], Head(stack))
          /\ StackRank(Callees(Head(stack))) < Rank(Head(stack))
          /\ Head(stack).k \in (IF pc = "parsing" THEN {"line"} ELSE {"node", "test", "scan"})
    /\ (pc = "parsing" /\ stack = <<>>) => ~IsPanic(parse_posix_script(input))

\* C24 witness: `test a -a a -o a` went through the loop and its calls and
\* the conversion has returned
C24_Witness ==
    /\ pc = "returned"
    /\ input = "test a -a a -o a"
    /\ stack = <<>>
    /\ result.kind = "Ok"

\* a word that is an operand and holds no character the quoting rule treats
\* as special
IsPlainWord(w) ==
    /\ Len(w) > 0
    /\ ~StartsWith(w, "-")
    /\ \A k \in 0..(Len(w) - 1) : CharAt(w, k) \notin {" ", "$", "*", "?", "\"", "'"}

\* C25: the external-utility converters that turn a file operand into an open
\* expression emit the operand in double quotes even when it is a plain word:
\* head F gives open "F" | lines | first 10, cat F gives open --raw "F", and
\* grep P F gives open "F" | lines | where $it =~ "P".
C25_FileOperandQuoted ==
    (pc = "command_done" /\ \A k \in 1..Len(args) : IsPlainWord(args[k])) =>
        /\ (name = "head" /\ Len(args) = 1) =>
              result = Ok("open \"" \o args[1] \o "\" | lines | first 10")
        /\ (name = "cat" /\ Len(args) = 1) =>
              result = Ok("open --raw \"" \o args[1] \o "\"")
        /\ (name = "grep" /\ Len(args) = 2) =>
              result = Ok("open \"" \o args[2] \o "\" | lines | where $it =~ \""
                              \o args[1] \o "\"")

\* what the converters return for plain words: the same expressions with the
\* operands bare, since quote_arg leaves a plain word unchanged
C25_FileOperandBare ==
    (pc = "command_done" /\ \A k \in 1..Len(args) : IsPlainWord(args[k])) =>
        /\ (name = "head" /\ Len(args) = 1) =>
              result = Ok("open " \o args[1] \o " | lines | first 10")
        /\ (name = "cat" /\ Len(args) = 1) =>
              result = Ok("open --raw " \o args[1])
        /\ (name = "grep" /\ Len(args) = 2) =>
              result = Ok("open " \o args[2] \o " | lines | where $it =~ " \o args[1])

OpensWithKeyword(line) ==
    /\ ~Contains(line, "\n")
    /\ \E kw \in KeywordOpeners : StartsWith(line, kw)

\* C27: the line rules are applied in priority order: a line that opens with
\* if, for, while, until, case, `{`, `(` or `$((` and contains `|` without
\* `||` is returned as a Pipeline, one that contains `&&` or `||` is returned
\* as an AndOr, and neither is returned as a Compound.
C27_OperatorsBeforeKeywords ==
    (pc = "parsed" /\ OpensWithKeyword(input)
        /\ (Contains(input, "|") \/ Contains(input, "&&"))) =>
        /\ script.type = "Script"
        /\ Len(script.commands) = 1
        /\ script.commands[1].type =
              (IF Contains(input, "|") /\ ~Contains(input, "||") THEN "Pipeline"
               ELSE "AndOr")

\* C27 apart from the lines on which the parser panics
C27_OperatorsBeforeKeywordsUnlessPanic ==
    (pc = "parsed" /\ script.type = "Script") => C27_OperatorsBeforeKeywords

\* C28: for every test expression E of one to three words, parsing and
\* converting the line `[ E ]` yields the text that parsing and converting
\* `test E` yields: the closing `]` ends the bracket form and is no operand.
C28_BracketLineAsTestLine ==
    (pc = "converted" /\ input \in BracketTestLines /\ StartsWith(input, "[ ")) =>
        LET E == Slice(input, 2, Len(input) - 2)
        IN  result \in Outcomes(convert(parse_posix_script("test " \o E)))

\* what the bracket line converts to: the conversion of `test E ]`, the
\* closing bracket being the last operand of the expression
C28_BracketLineKeepsBracket ==
    (pc = "converted" /\ input \in BracketTestLines /\ StartsWith(input, "[ ")) =>
        LET E == Slice(input, 2, Len(input) - 2)
        IN  result \in Outcomes(convert(parse_posix_script("test " \o E \o " ]")))

\* C29: the parser gives no structure to separators, function definitions,
\* else and elif clauses or case arms: in every AST parse returns there is no
\* List node and no Function compound, every If has exactly one condition
\* command, one then-body command, no elif part and no else body, and every
\* Case has an empty item list.
C29_NoListFunctionElseOrCaseItems ==
    (pc = "parsed" /\ script.type = "Script") =>
        \A i \in 1..Len(ScriptNodes(script)) :
            LET node == ScriptNodes(script)[i]
            IN  /\ node.type # "List"
                /\ node.type = "Compound" =>
                      /\ node.kind.kind # "Function"
                      /\ node.kind.kind = "If" =>
                            /\ Len(node.kind.condition) = 1
                            /\ Len(node.kind.then_body) = 1
                            /\ node.kind.elif_parts = <<>>
                            /\ ~node.kind.else_body.some
                      /\ node.kind.kind = "Case" => node.kind.items = <<>>

\* C29 witness: an if with an else clause has been parsed; the clause is the
\* argument words of the then-body command
C29_Witness ==
    /\ pc = "parsed"
    /\ input = "if x then x else x fi"
    /\ script = PosixScript(<<Compound([kind |-> "If",
                                        condition |-> <<Simple("x", <<>>, <<>>, <<>>)>>,
                                        then_body |-> <<Simple("x", <<"else", "x">>, <<>>, <<>>)>>,
                                        elif_parts |-> <<>>,
                                        else_body |-> [some |-> FALSE, body |-> <<>>]],
                                       <<>>)>>)

\* the dispatcher has converted `cut -d D -f N`
IsCutFieldCall ==
    /\ pc = "simple_done" /\ name = "cut"
    /\ Len(args) = 4 /\ args[1] = "-d" /\ args[3] = "-f"

\* C30: in the dispatcher's `cut -d D -f N` mapping the emitted column index
\* is N - 1, computed without overflow, for every N that parses as a signed
\* 32-bit integer, the minimum included, and 0 when N is not a number.
C30_CutIndexWithoutOverflow ==
    IsCutFieldCall =>
        LET N == ParseI32(args[4])
            \* the decimal text of N - 1, below the i32 range for the minimum
            index == IF ~N.ok THEN "0"
                     ELSE IF N.val = I32_MIN THEN "-2147483649"
                     ELSE IntToStr(N.val - 1)
        IN  result = Ok("split row " \o PosixToNuConverter_quote_arg(args[2])
                            \o " | get " \o index)

\* C30 for every N but the minimum, for which N - 1 is not an i32
C30_CutIndexUnlessMinimum ==
    (IsCutFieldCall /\ args[4] # "-2147483648") => C30_CutIndexWithoutOverflow

====
